---- MODULE Spec2Model ----
(***************************************************************************)
(* Connectify messaging client: the orchestration logic of App.tsx         *)
(* (conversation directory, membership manager, invite redemption) and of  *)
(* ChatView (message thread controller) over the external document store.  *)
(*                                                                         *)
(* Every async handler is a "run": a record holding the handler's locals   *)
(* and its position (pc).  One step of a run is the code between two       *)
(* awaits: the awaited store call takes effect, then the synchronous       *)
(* continuation runs up to the next await.  A run that returned stays at   *)
(* pc = "done" until Retire removes it.                                    *)
(*                                                                         *)
(* Date.now() is one non-decreasing clock, `now`.  A random id suffix     *)
(* (Math.random().toString(36)) is a fresh number: random suffixes are     *)
(* taken never to collide, fixed suffixes (`_1`, `_2`) can.  The store     *)
(* refuses a create whose id is already present (primary key) and any      *)
(* store call may fail.                                                    *)
(***************************************************************************)
EXTENDS Integers, Sequences, FiniteSets, TLC

\* ------------------------------------------------------------------ bounds
MaxTime == 2
MaxConvs == 2
MaxInvites == 1
MaxRuns == 2
MaxMsgs == 1
MaxGuests == 2

\* ------------------------------------------------------------- primitives
\* An optional numeric field that is absent (expiresAt?, maxUses?).
Null == 0 - 1

\* JavaScript truthiness of an optional number: `invite.expiresAt && ...`.
Truthy(x) == x # Null /\ x # 0

Sessions == {"s1", "s2"}

NoId == <<"none", 0, 0, 0>>

\* interface User (the fields the orchestration reads)
NoUser == [id |-> NoId, displayName |-> <<>>, isGuest |-> FALSE]
UserA == [id |-> <<"A", 0, 0, 0>>, displayName |-> <<"a">>, isGuest |-> FALSE]
UserB == [id |-> <<"B", 0, 0, 0>>, displayName |-> <<"b">>, isGuest |-> FALSE]
UserG == [id |-> <<"guest", 0, Null, 1>>, displayName |-> <<"C", "a", "s", "e", "y">>, isGuest |-> TRUE]
AllUsers == {UserA, UserB, UserG}
UserIds == {u.id : u \in AllUsers}

\* Texts are sequences of characters, so that trim() is computed. The texts a
\* user types: nothing, a blank, a word, and a word between blanks.
Texts == {<<>>, <<" ">>, <<"a">>, <<" ", "a", " ">>}

RECURSIVE TrimStart(_)
TrimStart(t) == IF t # <<>> /\ Head(t) = " " THEN TrimStart(Tail(t)) ELSE t
RECURSIVE TrimEnd(_)
TrimEnd(t) ==
  IF t # <<>> /\ t[Len(t)] = " " THEN TrimEnd(SubSeq(t, 1, Len(t) - 1)) ELSE t
\* String.prototype.trim
Trim(t) == TrimEnd(TrimStart(t))

\* Sequences over a finite set without repetition, of length lo..hi.
RECURSIVE SeqsNoDup(_, _)
SeqsNoDup(S, n) ==
  IF n = 0 THEN {<<>>}
  ELSE LET P == SeqsNoDup(S, n - 1)
       IN  P \cup {Append(q, x) : q \in {p \in P : Len(p) = n - 1}, x \in S}
Range(q) == {q[k] : k \in 1..Len(q)}
Distinct(q) == \A j, k \in 1..Len(q) : j # k => q[j] # q[k]
Orderings(S) == {q \in SeqsNoDup(S, Cardinality(S)) : Range(q) = S /\ Distinct(q)}

\* ------------------------------------------------------------------ state
VARIABLES
  now,            \* Date.now()
  dbUsers,        \* blink.db.users
  dbConvs,        \* blink.db.conversations
  dbMembers,      \* blink.db.conversationMembers
  dbMessages,     \* blink.db.messages
  dbInvites,      \* blink.db.invites
  user,           \* App: useState user, per browser session
  conversations,  \* App: useState conversations
  selected,       \* App: useState selectedConversation (its id)
  messages,       \* ChatView: useState messages
  newMessage,     \* ChatView: useState newMessage
  sending,        \* ChatView: useState sending
  uploadProgress, \* ChatView: useState uploadProgress (Null when null)
  loading,        \* ChatView: useState loading
  inviteCode,     \* App: useState inviteCode (0 when null)
  showGuestLogin, \* App: useState showGuestLogin
  runs            \* handler invocations in flight or just returned

store == <<dbUsers, dbConvs, dbMembers, dbMessages, dbInvites>>
appState == <<user, conversations, selected>>
authState == <<inviteCode, showGuestLogin>>
chatState == <<messages, newMessage, sending, uploadProgress, loading>>
vars == <<now, store, appState, authState, chatState, runs>>

\* ------------------------------------------------------------ store reads
\* conversationMembers.list({where: {userId}})
MembersOfUser(M, uid) == {m \in M : m.userId = uid}
\* conversationMembers.list({where: {conversationId}})
MembersOfConv(M, cid) == {m \in M : m.conversationId = cid}
\* conversationMembers.list({where: {conversationId, userId}, limit: 1})
Membership(M, cid, uid) == {m \in M : m.conversationId = cid /\ m.userId = uid}
\* conversations.list({where: {id}, limit: 1})
ConvById(C, cid) == {c \in C : c.id = cid}
\* invites.list({where: {inviteCode: code, isActive: true}, limit: 1})
ActiveInvites(I, code) == {v \in I : v.inviteCode = code /\ v.isActive}
\* users.list({where: {id}, limit: 1})
UserById(U, uid) == {u \in U : u.id = uid}
\* messages.list({where: {conversationId}})
MessagesOfConv(Ms, cid) == {m \in Ms : m.conversationId = cid}

HasId(S, id) == \E r \in S : r.id = id

\* `${kind}_${Date.now()}_${Math.random().toString(36).substr(2, 9)}`: an id
\* with a random suffix, taken to be one that no record of S has yet.
RandomId(S, kind, t) ==
  LET k == CHOOSE k \in 1..(Cardinality(S) + 1) :
             /\ ~HasId(S, <<kind, t, Null, k>>)
             /\ \A j \in 1..(k - 1) : HasId(S, <<kind, t, Null, j>>)
  IN  <<kind, t, Null, k>>

\* `${kind}_${Date.now()}_${index}`: an id with a fixed suffix.
IndexedId(kind, t, index) == <<kind, t, index, 0>>

\* `${kind}_${Date.now()}`: an id without a suffix.
TimeId(kind, t) == <<kind, t, Null, 0>>

\* ---------------------------------------------------------------- records
NoConv ==
  [id |-> NoId, type |-> "none", name |-> <<>>, description |-> <<>>,
   createdBy |-> NoId, createdAt |-> 0, updatedAt |-> 0, lastMessageAt |-> 0]
NoMember == [id |-> NoId, conversationId |-> NoId, userId |-> NoId, role |-> "none"]
NoInvite ==
  [id |-> NoId, conversationId |-> NoId, createdBy |-> NoId, inviteCode |-> 0,
   expiresAt |-> Null, maxUses |-> Null, currentUses |-> 0, isActive |-> FALSE]
NoUrl == <<"", NoId, 0, <<>>>>
NoFile == [name |-> <<>>, size |-> 0, type |-> <<"none">>]
NoMsg ==
  [id |-> NoId, conversationId |-> NoId, userId |-> NoId, content |-> <<>>,
   messageType |-> "none", fileUrl |-> NoUrl, fileName |-> <<>>, fileSize |-> 0,
   fileType |-> <<"none">>, createdAt |-> 0]
\* lastMessage of a conversation view when the conversation has no message
NoLast == [content |-> <<>>, senderName |-> <<>>, createdAt |-> 0, present |-> FALSE]

\* What a handler can see of the store and of its session when it starts; kept
\* with the run so that its effect can be compared with the state it found.
Snapshot(s) ==
  [now |-> now, convs |-> dbConvs, members |-> dbMembers, invites |-> dbInvites,
   dbMessages |-> dbMessages, conversations |-> conversations[s],
   selected |-> selected[s], messages |-> messages[s],
   newMessage |-> newMessage[s], sending |-> sending[s],
   uploadProgress |-> uploadProgress[s],
   users |-> dbUsers, user |-> user[s], inviteCode |-> inviteCode[s],
   showGuestLogin |-> showGuestLogin[s],
   busy |-> {runs[k].op : k \in {j \in 1..Len(runs) :
               runs[j].s = s /\ runs[j].pc # "done"}},
   inflight |-> {<<runs[k].op, runs[k].conv>> : k \in {j \in 1..Len(runs) :
               runs[j].s = s /\ runs[j].pc # "done"}}]

\* A handler invocation: its closure (s, u, conv), arguments, locals, the
\* notifications it raised, the store calls it issued, and its position.
NewRun(op, s, pc) ==
  [op |-> op, s |-> s, pc |-> pc, outcome |-> "none", toasts |-> <<>>,
   calls |-> {}, writes |-> <<>>,
   pre |-> IF op = "send" THEN Snapshot(s)
           ELSE [Snapshot(s) EXCEPT !.messages = <<>>, !.newMessage = <<>>,
                                    !.sending = FALSE, !.uploadProgress = Null],
   u |-> user[s], conv |-> selected[s],
   code |-> 0, invite |-> NoInvite, joined |-> "none", target |-> NoId,
   name |-> <<>>, description |-> <<>>, memberIds |-> <<>>,
   cid |-> NoId, ts |-> 0, scan |-> {}, cur |-> NoId, found |-> NoConv,
   mids |-> {}, cdata |-> <<>>, lcFailed |-> FALSE,
   text |-> <<>>, file |-> NoFile, url |-> NoUrl, msgs |-> <<>>, lmFailed |-> FALSE]

Toast(r, what) == [r EXCEPT !.toasts = Append(@, what)]
Calls(r, coll) == [r EXCEPT !.calls = @ \cup {coll}]
Wrote(r, coll, kind, recs) ==
  [r EXCEPT !.writes = Append(@, [coll |-> coll, kind |-> kind, recs |-> recs])]
Done(r, outcome) == [r EXCEPT !.pc = "done", !.outcome = outcome]

At(i, op, pc) == i \in 1..Len(runs) /\ runs[i].op = op /\ runs[i].pc = pc
InFlight == {i \in 1..Len(runs) : runs[i].pc # "done"}
SetRun(i, r) == runs' = [runs EXCEPT ![i] = r]
RemoveAt(q, i) == SubSeq(q, 1, i - 1) \o SubSeq(q, i + 1, Len(q))

\* A user gesture starts a handler only while fewer than MaxRuns are in flight.
CanStart == Len(runs) < MaxRuns

\* setSelectedConversation(conv) and what React does next: ChatView is given
\* the conversation, and when its id changed the effect of lines 107-109 calls
\* loadMessages(), which sets loading and issues the message list.
Select(s, cid, rs) ==
  /\ selected' = [selected EXCEPT ![s] = cid]
  /\ IF selected[s] = cid
     THEN runs' = rs /\ UNCHANGED loading
     ELSE /\ runs' = Append(rs, [NewRun("thread", s, "lm_list") EXCEPT !.conv = cid])
          /\ loading' = [loading EXCEPT ![s] = TRUE]

\* ------------------------------------------------ Conversation Directory
\* content: msg.content || (msg.messageType === 'file' ? `📎 ${fileName}` : 'File')
PreviewContent(msg) ==
  IF msg.content # <<>> THEN msg.content
  ELSE IF msg.messageType = "file" THEN <<"@", " ">> \o msg.fileName
  ELSE <<"F", "i", "l", "e">>

\* messages.list({where: {conversationId}, orderBy: {createdAt: 'desc'}, limit: 1}):
\* the candidates for the single row returned (a tie is the store's choice).
LastMessages(Ms, cid) ==
  LET mc == MessagesOfConv(Ms, cid)
  IN  {m \in mc : \A o \in mc : o.createdAt <= m.createdAt}

Unknown == <<"U", "n", "k", "n", "o", "w", "n">>
\* sender[0]?.displayName || 'Unknown'
SenderName(U, uid) ==
  IF UserById(U, uid) = {} THEN Unknown
  ELSE LET n == (CHOOSE u \in UserById(U, uid) : TRUE).displayName
       IN  IF n = <<>> THEN Unknown ELSE n

LastMessageView(lm) ==
  IF lm = NoMsg THEN NoLast
  ELSE [content |-> PreviewContent(lm), senderName |-> SenderName(dbUsers, lm.userId),
        createdAt |-> lm.createdAt, present |-> TRUE]

\* members of a group conversation: memberDetails.filter(Boolean)
MemberDetails(conv) ==
  IF conv.type = "group"
  THEN {u \in dbUsers : \E m \in MembersOfConv(dbMembers, conv.id) : m.userId = u.id}
  ELSE {}

\* { ...conv, lastMessage, members }
ConversationView(conv, lm) ==
  [conv |-> conv, lastMessage |-> LastMessageView(lm), members |-> MemberDetails(conv)]

\* orderBy: {lastMessageAt: 'desc'}: every order the store may return
SortedByLastMessageAt(S) ==
  {q \in Orderings(S) :
     \A j, k \in 1..Len(q) : j < k => q[j].lastMessageAt >= q[k].lastMessageAt}

\* What runs after `await loadConversations(...)` returns, up to the next await
\* of the caller.
AfterLoadConversations(r) ==
  CASE r.op = "invite" \/ r.invite # NoInvite -> [r EXCEPT !.pc = "ij_conv"]
    [] r.op = "auth" -> IF r.code # 0 THEN [r EXCEPT !.pc = "ij_invites"]
                        ELSE Done(r, "signedin")
    [] r.op = "private" -> Done(Toast(r, "Private chat created successfully"), "created")
    [] r.op = "group" -> Done(Toast(r, "Group chat created successfully"), "created")
    [] OTHER -> Done(r, IF r.lcFailed THEN "error" ELSE "ok")

\* loadConversations without the early return of lines 68-71.
loadConversations_membersNoReturn(i) ==
  /\ i \in 1..Len(runs) /\ runs[i].pc = "lc_members"
  /\ LET r == Calls(runs[i], "conversationMembers")
         md == MembersOfUser(dbMembers, r.u.id)
     IN  SetRun(i, [r EXCEPT !.mids = {m.conversationId : m \in md}, !.pc = "lc_convs"])
  /\ UNCHANGED <<now, authState, store, appState, chatState>>

\* loadConversations, lines 63-71: the membership list has answered.
loadConversations_members(i) ==
  /\ i \in 1..Len(runs) /\ runs[i].pc = "lc_members"
  /\ LET r == Calls(runs[i], "conversationMembers")
         md == MembersOfUser(dbMembers, r.u.id)
     IN  IF md = {}
         THEN /\ conversations' = [conversations EXCEPT ![r.s] = <<>>]
              /\ SetRun(i, AfterLoadConversations(r))
         ELSE /\ SetRun(i, [r EXCEPT !.mids = {m.conversationId : m \in md},
                                     !.pc = "lc_convs"])
              /\ UNCHANGED conversations
  /\ UNCHANGED <<now, authState, store, user, selected, chatState>>

\* loadConversations, lines 76-81: the conversation list has answered.
loadConversations_convs(i) ==
  /\ i \in 1..Len(runs) /\ runs[i].pc = "lc_convs"
  /\ \E q \in SortedByLastMessageAt({c \in dbConvs : c.id \in runs[i].mids}) :
       SetRun(i, [Calls(runs[i], "conversations") EXCEPT !.cdata = q, !.pc = "lc_details"])
  /\ UNCHANGED <<now, authState, store, appState, chatState>>

\* loadConversations, lines 84-133: Promise.all over the conversations has
\* resolved (last message, its sender, group members and their users), read
\* in one step, and the list is committed.
loadConversations_details(i) ==
  /\ i \in 1..Len(runs) /\ runs[i].pc = "lc_details"
  /\ LET r == runs[i]
         n == Len(r.cdata)
         looked ==
           (IF n > 0 THEN {"messages"} ELSE {})
           \cup (IF \E k \in 1..n : r.cdata[k].type = "group"
                 THEN {"conversationMembers"} ELSE {})
           \cup (IF \E k \in 1..n :
                      \/ MessagesOfConv(dbMessages, r.cdata[k].id) # {}
                      \/ /\ r.cdata[k].type = "group"
                         /\ MembersOfConv(dbMembers, r.cdata[k].id) # {}
                 THEN {"users"} ELSE {})
     IN  \E lm \in [1..n -> dbMessages \cup {NoMsg}] :
           /\ \A k \in 1..n :
                IF LastMessages(dbMessages, r.cdata[k].id) = {}
                THEN lm[k] = NoMsg
                ELSE lm[k] \in LastMessages(dbMessages, r.cdata[k].id)
           /\ conversations' =
                [conversations EXCEPT
                   ![r.s] = [k \in 1..n |-> ConversationView(r.cdata[k], lm[k])]]
           /\ SetRun(i, AfterLoadConversations([r EXCEPT !.calls = @ \cup looked]))
  /\ UNCHANGED <<now, authState, store, user, selected, chatState>>

\* A failed load that commits the empty list.
loadConversations_catchClears(i) ==
  /\ i \in 1..Len(runs) /\ runs[i].pc \in {"lc_members", "lc_convs", "lc_details"}
  /\ conversations' = [conversations EXCEPT ![runs[i].s] = <<>>]
  /\ SetRun(i, AfterLoadConversations(
                 [Toast(runs[i], "Failed to load conversations") EXCEPT !.lcFailed = TRUE]))
  /\ UNCHANGED <<now, authState, store, user, selected, chatState>>

\* loadConversations, lines 134-141: any of its lookups failed.
loadConversations_catch(i) ==
  /\ i \in 1..Len(runs) /\ runs[i].pc \in {"lc_members", "lc_convs", "lc_details"}
  /\ SetRun(i, AfterLoadConversations(
                 [Toast(runs[i], "Failed to load conversations") EXCEPT !.lcFailed = TRUE]))
  /\ UNCHANGED <<now, authState, store, appState, chatState>>

\* ChatSidebar onRefresh: loadConversations(user.id), lines 520 and 528.
onRefresh(s) ==
  /\ CanStart /\ user[s] # NoUser
  /\ runs' = Append(runs, NewRun("load", s, "lc_members"))
  /\ UNCHANGED <<now, authState, store, appState, chatState>>

\* ChatSidebar onSelectConversation={setSelectedConversation}, line 517.
onSelectConversation(s) ==
  /\ user[s] # NoUser
  /\ \E k \in 1..Len(conversations[s]) :
       /\ selected[s] # conversations[s][k].conv.id
       /\ Select(s, conversations[s][k].conv.id, runs)
  /\ UNCHANGED <<now, authState, store, user, conversations>>
  /\ UNCHANGED <<messages, newMessage, sending, uploadProgress>>

\* ------------------------------------------------------------ environment
\* Time passes.
Tick ==
  /\ now < MaxTime
  /\ now' = now + 1
  /\ UNCHANGED <<store, appState, authState, chatState, runs>>

\* A returned invocation is forgotten.
Retire(i) ==
  /\ i \in 1..Len(runs) /\ runs[i].pc = "done"
  /\ runs' = RemoveAt(runs, i)
  /\ UNCHANGED <<now, authState, store, appState, chatState>>

\* ------------------------------------------------- Invite Redemption Flow
\* role: currentUser.isGuest ? 'guest' : 'member'
InviteRoleMember(u) == "member"
InviteRole(u) == IF u.isGuest THEN "guest" ELSE "member"

\* invite.expiresAt && invite.expiresAt < Date.now()
InviteExpiredNever(invite, t) == Truthy(invite.expiresAt) /\ invite.expiresAt > t
InviteExpired(invite, t) == Truthy(invite.expiresAt) /\ invite.expiresAt < t

\* invite.maxUses && invite.currentUses >= invite.maxUses
InviteExhaustedStrict(invite) == Truthy(invite.maxUses) /\ invite.currentUses > invite.maxUses
InviteExhausted(invite) == Truthy(invite.maxUses) /\ invite.currentUses >= invite.maxUses

\* An increment of the stored currentUses, whatever the handler had read.
UpdateCurrentUsesAtomic(I, invite) ==
  {IF v.id = invite.id THEN [v EXCEPT !.currentUses = v.currentUses + 1] ELSE v :
     v \in I}

\* The update that also switches the invite off once its cap is reached.
UpdateCurrentUsesDeactivates(I, invite) ==
  {IF v.id = invite.id
   THEN [v EXCEPT !.currentUses = invite.currentUses + 1,
                  !.isActive = ~(Truthy(v.maxUses) /\ invite.currentUses + 1 >= v.maxUses)]
   ELSE v : v \in I}

\* invites.update(invite.id, { currentUses: invite.currentUses + 1 })
UpdateCurrentUses(I, invite) ==
  {IF v.id = invite.id THEN [v EXCEPT !.currentUses = invite.currentUses + 1] ELSE v :
     v \in I}

\* handleInviteJoin runs on its own ("invite"), or awaited by the auth callback
\* (App.tsx 306-309) or by handleGuestLogin (258-261).
JoinOps == {"invite", "auth", "guest"}
AtJoin(i, pc) == i \in 1..Len(runs) /\ runs[i].op \in JoinOps /\ runs[i].pc = pc

\* handleInviteJoin returns with `outcome`; an awaiting caller goes on to its
\* own end: setInviteCode(null), and for the guest login the toast "Welcome!".
ReturnJoin(r, outcome) ==
  CASE r.op = "auth" -> Done([r EXCEPT !.joined = outcome], "signedin")
    [] r.op = "guest" -> Done(Toast([r EXCEPT !.joined = outcome], "Welcome!"), "signedin")
    [] OTHER -> Done(r, outcome)

\* setInviteCode(null) of lines 260 and 308, when the join was awaited.
AfterJoin(r) ==
  /\ inviteCode' = IF r.op \in {"auth", "guest"}
                   THEN [inviteCode EXCEPT ![r.s] = 0] ELSE inviteCode
  /\ UNCHANGED showGuestLogin

\* handleInviteJoin(currentUser, code) is called: lines 144-150.
handleInviteJoin(s, code) ==
  /\ CanStart /\ user[s] # NoUser
  /\ runs' = Append(runs, [NewRun("invite", s, "ij_invites") EXCEPT !.code = code])
  /\ UNCHANGED <<now, authState, store, appState, chatState>>

\* lines 152-186: the invite lookup has answered; validity checks.
handleInviteJoin_invites(i) ==
  /\ AtJoin(i, "ij_invites")
  /\ LET r == Calls(runs[i], "invites")
         found == ActiveInvites(dbInvites, r.code)
     IN  IF found = {}
         THEN SetRun(i, ReturnJoin(Toast(r, "Invalid Invite"), "invalid")) /\ AfterJoin(r)
         ELSE \E invite \in found :
                IF InviteExpired(invite, now)
                THEN /\ SetRun(i, ReturnJoin(Toast(r, "Expired Invite"), "expired"))
                     /\ AfterJoin(r)
                ELSE IF InviteExhausted(invite)
                THEN /\ SetRun(i, ReturnJoin(Toast(r, "Invite Limit Reached"), "limit"))
                     /\ AfterJoin(r)
                ELSE /\ SetRun(i, [r EXCEPT !.invite = invite, !.pc = "ij_existing"])
                     /\ UNCHANGED authState
  /\ UNCHANGED <<now, store, appState, chatState>>

\* The membership lookup answered, its answer not looked at.
handleInviteJoin_existingIgnored(i) ==
  /\ AtJoin(i, "ij_existing")
  /\ SetRun(i, [Calls(runs[i], "conversationMembers") EXCEPT !.ts = now, !.pc = "ij_create"])
  /\ UNCHANGED <<now, authState, store, appState, chatState>>

\* lines 188-195 and 203-204: the membership lookup has answered.
handleInviteJoin_existing(i) ==
  /\ AtJoin(i, "ij_existing")
  /\ LET r == Calls(runs[i], "conversationMembers")
     IN  IF Membership(dbMembers, r.invite.conversationId, r.u.id) = {}
         THEN SetRun(i, [r EXCEPT !.ts = now, !.pc = "ij_create"])
         ELSE SetRun(i, [r EXCEPT !.pc = "lc_members"])
  /\ UNCHANGED <<now, authState, store, appState, chatState>>

\* lines 190-200: the membership record is created; the usage update is issued.
handleInviteJoin_create(i) ==
  /\ AtJoin(i, "ij_create")
  /\ LET r == runs[i]
         rec == [id |-> RandomId(dbMembers, "member", r.ts),
                 conversationId |-> r.invite.conversationId,
                 userId |-> r.u.id,
                 role |-> InviteRole(r.u)]
     IN  /\ dbMembers' = dbMembers \cup {rec}
         /\ SetRun(i, [Wrote(r, "conversationMembers", "create", {rec})
                         EXCEPT !.pc = "ij_update"])
  /\ UNCHANGED <<now, authState, dbUsers, dbConvs, dbMessages, dbInvites, appState, chatState>>

\* lines 197-204: currentUses is written; loadConversations is called.
handleInviteJoin_update(i) ==
  /\ AtJoin(i, "ij_update")
  /\ LET r == runs[i]
     IN  /\ dbInvites' = UpdateCurrentUses(dbInvites, r.invite)
         /\ SetRun(i, [Wrote(r, "invites", "update",
                             {[r.invite EXCEPT !.currentUses = r.invite.currentUses + 1]})
                         EXCEPT !.pc = "lc_members"])
  /\ UNCHANGED <<now, authState, dbUsers, dbConvs, dbMembers, dbMessages, appState, chatState>>

\* lines 207-219: the conversation lookup has answered; select it.
handleInviteJoin_conv(i) ==
  /\ AtJoin(i, "ij_conv")
  /\ LET r == Calls(runs[i], "conversations")
         after == [runs EXCEPT ![i] = ReturnJoin(Toast(r, "Joined Chat!"), "joined")]
     IN  /\ IF ConvById(dbConvs, r.invite.conversationId) # {}
            THEN Select(r.s, r.invite.conversationId, after)
            ELSE runs' = after /\ UNCHANGED <<selected, loading>>
         /\ AfterJoin(r)
  /\ UNCHANGED <<now, store, user, conversations>>
  /\ UNCHANGED <<messages, newMessage, sending, uploadProgress>>

\* lines 220-227: a store call of handleInviteJoin itself failed.
handleInviteJoin_catch(i) ==
  /\ i \in 1..Len(runs) /\ runs[i].op \in JoinOps
  /\ runs[i].pc \in {"ij_invites", "ij_existing", "ij_create", "ij_update", "ij_conv"}
  /\ SetRun(i, ReturnJoin(Toast(runs[i], "Failed to join conversation"), "error"))
  /\ AfterJoin(runs[i])
  /\ UNCHANGED <<now, store, appState, chatState>>

\* InviteDialog: the <select> options of expiresIn and maxUses, scaled to the
\* clock of the model (hours -> ticks; 1, 5, 10, 50, 999 uses -> 1, 2).
ExpiresInOptions == {1}
MaxUsesOptions == {1, 2}

\* Math.random().toString(36).substring(2, 15): a code no invite has yet.
RandomCode(I) ==
  CHOOSE k \in 1..(Cardinality(I) + 1) :
    /\ \A v \in I : v.inviteCode # k
    /\ \A j \in 1..(k - 1) : \E v \in I : v.inviteCode = j

\* InviteDialog.generateInviteLink is called: lines 295-298.
generateInviteLink(s, expiresIn, maxUses) ==
  /\ CanStart /\ user[s] # NoUser /\ selected[s] # NoId
  /\ Cardinality({v \in dbInvites : v.id[2] > 0}) < MaxInvites
  /\ runs' = Append(runs, [NewRun("generate", s, "gi_me")
                             EXCEPT !.ts = expiresIn, !.code = maxUses])
  /\ UNCHANGED <<now, authState, store, appState, chatState>>

\* lines 298-311: blink.auth.me() has answered with the signed-in account.
generateInviteLink_me(i) ==
  /\ At(i, "generate", "gi_me")
  /\ ~runs[i].u.isGuest
  /\ LET r == runs[i]
         invite == [id |-> TimeId("invite", now),
                    conversationId |-> r.conv,
                    createdBy |-> r.u.id,
                    inviteCode |-> 0,
                    expiresAt |-> now + r.ts,
                    maxUses |-> r.code,
                    currentUses |-> 0,
                    isActive |-> TRUE]
     IN  SetRun(i, [r EXCEPT !.invite = invite, !.pc = "gi_create"])
  /\ UNCHANGED <<now, authState, store, appState, chatState>>

\* lines 302-314: the invite record is created.
generateInviteLink_create(i) ==
  /\ At(i, "generate", "gi_create")
  /\ LET r == runs[i]
         rec == [r.invite EXCEPT !.inviteCode = RandomCode(dbInvites)]
     IN  /\ ~HasId(dbInvites, rec.id)
         /\ dbInvites' = dbInvites \cup {rec}
         /\ SetRun(i, Done(Wrote([r EXCEPT !.invite = rec], "invites", "create", {rec}),
                           "generated"))
  /\ UNCHANGED <<now, authState, dbUsers, dbConvs, dbMembers, dbMessages, appState, chatState>>

\* lines 315-319: me() or the create failed: logged, no notification.
generateInviteLink_catch(i) ==
  /\ i \in 1..Len(runs) /\ runs[i].op = "generate"
  /\ runs[i].pc \in {"gi_me", "gi_create"}
  /\ SetRun(i, Done(runs[i], "error"))
  /\ UNCHANGED <<now, authState, store, appState, chatState>>

\* ----------------------------------------------------- Membership Manager
\* The conversations a client may still create (bounds the model).
CanCreateConv ==
  Cardinality(dbConvs)
    + Cardinality({i \in InFlight : runs[i].op \in {"private", "group"}}) < MaxConvs

\* The loop head of lines 340-356, and lines 358-368 when the loop is over:
\* take the next membership and look its conversation up, or issue the create.
ScanNext(r) ==
  IF r.scan = {}
  THEN {[r EXCEPT !.ts = now, !.pc = "pc_createConv"]}
  ELSE {[r EXCEPT !.scan = @ \ {m}, !.cur = m.conversationId, !.pc = "pc_conv"] :
          m \in r.scan}

\* otherMembers.length === 2 && otherMembers.some(m => m.userId === targetUserId)
IsPrivateChatWith(otherMembers, targetUserId) ==
  /\ Cardinality(otherMembers) = 2
  /\ \E m \in otherMembers : m.userId = targetUserId

\* handleCreatePrivateChat(targetUserId) is called: lines 331-338.
handleCreatePrivateChat(s, targetUserId) ==
  /\ CanStart /\ CanCreateConv /\ user[s] # NoUser
  /\ targetUserId # user[s].id
  /\ runs' = Append(runs, [NewRun("private", s, "pc_memberships")
                             EXCEPT !.target = targetUserId])
  /\ UNCHANGED <<now, authState, store, appState, chatState>>

\* lines 336-344: the caller's memberships have answered.
handleCreatePrivateChat_memberships(i) ==
  /\ At(i, "private", "pc_memberships")
  /\ LET r == [Calls(runs[i], "conversationMembers")
                 EXCEPT !.scan = MembersOfUser(dbMembers, runs[i].u.id)]
     IN  \E nxt \in ScanNext(r) : SetRun(i, nxt)
  /\ UNCHANGED <<now, authState, store, appState, chatState>>

\* lines 341-349: conversations.list({id, type: 'private'}) has answered.
handleCreatePrivateChat_conv(i) ==
  /\ At(i, "private", "pc_conv")
  /\ LET r == Calls(runs[i], "conversations")
         conv == {c \in ConvById(dbConvs, r.cur) : c.type = "private"}
     IN  IF conv # {}
         THEN \E c \in conv : SetRun(i, [r EXCEPT !.found = c, !.pc = "pc_others"])
         ELSE \E nxt \in ScanNext(r) : SetRun(i, nxt)
  /\ UNCHANGED <<now, authState, store, appState, chatState>>

\* lines 347-355: the members of the private conversation have answered.
handleCreatePrivateChat_others(i) ==
  /\ At(i, "private", "pc_others")
  /\ LET r == runs[i]
     IN  IF IsPrivateChatWith(MembersOfConv(dbMembers, r.found.id), r.target)
         THEN Select(r.s, r.found.id, [runs EXCEPT ![i] = Done(r, "existing")])
         ELSE /\ \E nxt \in ScanNext(r) : SetRun(i, nxt)
              /\ UNCHANGED <<selected, loading>>
  /\ UNCHANGED <<now, authState, store, user, conversations>>
  /\ UNCHANGED <<messages, newMessage, sending, uploadProgress>>

\* Only the creator's record.
PrivateMembersCreatorOnly(conversationId, t, creatorId, targetUserId) ==
  {[id |-> IndexedId("member", t, 1), conversationId |-> conversationId,
    userId |-> creatorId, role |-> "member"]}

\* The two records of lines 371-384.
PrivateMembers(conversationId, t, creatorId, targetUserId) ==
  {[id |-> IndexedId("member", t, 1), conversationId |-> conversationId,
    userId |-> creatorId, role |-> "member"],
   [id |-> IndexedId("member", t, 2), conversationId |-> conversationId,
    userId |-> targetUserId, role |-> "member"]}

\* lines 359-384: the conversation record is created; createMany is issued.
handleCreatePrivateChat_createConv(i) ==
  /\ At(i, "private", "pc_createConv")
  /\ LET r == runs[i]
         rec == [id |-> RandomId(dbConvs, "conv", r.ts),
                 type |-> "private", name |-> <<>>, description |-> <<>>,
                 createdBy |-> r.u.id, createdAt |-> r.ts, updatedAt |-> r.ts,
                 lastMessageAt |-> r.ts]
     IN  /\ dbConvs' = dbConvs \cup {rec}
         /\ SetRun(i, [Wrote(r, "conversations", "create", {rec})
                         EXCEPT !.cid = rec.id, !.ts = now, !.pc = "pc_createMembers"])
  /\ UNCHANGED <<now, authState, dbUsers, dbMembers, dbMessages, dbInvites, appState, chatState>>

\* lines 371-386: the two memberships are created; loadConversations is called.
handleCreatePrivateChat_createMembers(i) ==
  /\ At(i, "private", "pc_createMembers")
  /\ LET r == runs[i]
         recs == PrivateMembers(r.cid, r.ts, r.u.id, r.target)
     IN  /\ \A m \in recs : ~HasId(dbMembers, m.id)
         /\ dbMembers' = dbMembers \cup recs
         /\ SetRun(i, [Wrote(r, "conversationMembers", "createMany", recs)
                         EXCEPT !.pc = "lc_members"])
  /\ UNCHANGED <<now, authState, dbUsers, dbConvs, dbMessages, dbInvites, appState, chatState>>

\* The catch that deletes the conversation the run has created.
handleCreatePrivateChat_catchRollsBack(i) ==
  /\ i \in 1..Len(runs) /\ runs[i].op = "private"
  /\ runs[i].pc \in {"pc_memberships", "pc_conv", "pc_others", "pc_createConv",
                     "pc_createMembers"}
  /\ dbConvs' = {c \in dbConvs : c.id # runs[i].cid}
  /\ SetRun(i, Done(Toast(runs[i], "Failed to create private chat"), "error"))
  /\ UNCHANGED <<now, authState, dbUsers, dbMembers, dbMessages, dbInvites, appState, chatState>>

\* lines 392-399: a store call of handleCreatePrivateChat itself failed.
handleCreatePrivateChat_catch(i) ==
  /\ i \in 1..Len(runs) /\ runs[i].op = "private"
  /\ runs[i].pc \in {"pc_memberships", "pc_conv", "pc_others", "pc_createConv",
                     "pc_createMembers"}
  /\ SetRun(i, Done(Toast(runs[i], "Failed to create private chat"), "error"))
  /\ UNCHANGED <<now, authState, store, appState, chatState>>

\* CreateGroupDialog: name and description as typed (trimmed), and the
\* selected users: never the creator, never one twice, at least one.
GroupForms(creatorId) ==
  {[name |-> <<"a">>, description |-> <<>>, memberIds |-> <<UserB.id>>]}
  \cup {[name |-> <<"a", "a">>, description |-> <<"a">>, memberIds |-> <<x, UserB.id>>] :
          x \in {UserA.id, UserG.id} \ {creatorId}}

\* role: user.isGuest ? 'guest' : 'admin'
CreatorRoleAdmin(u) == "admin"
CreatorRole(u) == IF u.isGuest THEN "guest" ELSE "admin"

\* The members array of lines 420-437.
GroupMembers(conversationId, t, creator, memberIds) ==
  {[id |-> IndexedId("member", t, 0), conversationId |-> conversationId,
    userId |-> creator.id, role |-> CreatorRole(creator)]}
  \cup {[id |-> IndexedId("member", t, k), conversationId |-> conversationId,
         userId |-> memberIds[k], role |-> "member"] : k \in 1..Len(memberIds)}

\* handleCreateGroup(name, description, memberIds) is called: lines 402-417.
handleCreateGroup(s, form) ==
  /\ CanStart /\ CanCreateConv /\ user[s] # NoUser
  /\ user[s].id \notin Range(form.memberIds)
  /\ runs' = Append(runs, [NewRun("group", s, "cg_createConv")
                             EXCEPT !.name = form.name, !.description = form.description,
                                    !.memberIds = form.memberIds, !.ts = now])
  /\ UNCHANGED <<now, authState, store, appState, chatState>>

\* What can be typed into the dialog: the forms above, a name of blanks only,
\* and nobody selected.
DialogForms(creatorId) ==
  GroupForms(creatorId)
  \cup {[name |-> <<" ">>, description |-> <<>>, memberIds |-> <<UserB.id>>],
        [name |-> <<" ", "a", " ">>, description |-> <<>>, memberIds |-> <<>>]}

\* CreateGroupDialog.handleCreateGroup, CreateGroupDialog.tsx lines 95-117:
\* the two checks, then onCreateGroup with the trimmed name and description.
CreateGroupDialog_handleCreateGroup(s, form) ==
  IF Trim(form.name) = <<>>
  THEN /\ CanStart
       /\ runs' = Append(runs, Done(Toast(NewRun("group", s, "cgd_check"),
                                          "Group name is required"), "invalid"))
       /\ UNCHANGED <<now, authState, store, appState, chatState>>
  ELSE IF Len(form.memberIds) = 0
  THEN /\ CanStart
       /\ runs' = Append(runs, Done(Toast(NewRun("group", s, "cgd_check"),
                                          "Please select at least one member"), "invalid"))
       /\ UNCHANGED <<now, authState, store, appState, chatState>>
  ELSE handleCreateGroup(s, [name |-> Trim(form.name),
                             description |-> Trim(form.description),
                             memberIds |-> form.memberIds])

\* The dialog's "Create Group" button, lines 265-270: its onClick is the only
\* caller of the handler, and it is disabled for a blank name and for an
\* empty selection.
CreateDisabled(form) == Trim(form.name) = <<>> \/ Len(form.memberIds) = 0
onCreateGroupClick(s, form) ==
  /\ ~CreateDisabled(form)
  /\ CreateGroupDialog_handleCreateGroup(s, form)

\* lines 406-439: the conversation record is created; createMany is issued.
handleCreateGroup_createConv(i) ==
  /\ At(i, "group", "cg_createConv")
  /\ LET r == runs[i]
         rec == [id |-> RandomId(dbConvs, "conv", r.ts),
                 type |-> "group", name |-> r.name, description |-> r.description,
                 createdBy |-> r.u.id, createdAt |-> r.ts, updatedAt |-> r.ts,
                 lastMessageAt |-> r.ts]
     IN  /\ dbConvs' = dbConvs \cup {rec}
         /\ SetRun(i, [Wrote(r, "conversations", "create", {rec})
                         EXCEPT !.cid = rec.id, !.ts = now, !.pc = "cg_createMembers"])
  /\ UNCHANGED <<now, authState, dbUsers, dbMembers, dbMessages, dbInvites, appState, chatState>>

\* lines 439-440: the memberships are created; loadConversations is called.
handleCreateGroup_createMembers(i) ==
  /\ At(i, "group", "cg_createMembers")
  /\ LET r == runs[i]
         recs == GroupMembers(r.cid, r.ts, r.u, r.memberIds)
     IN  /\ \A m \in recs : ~HasId(dbMembers, m.id)
         /\ dbMembers' = dbMembers \cup recs
         /\ SetRun(i, [Wrote(r, "conversationMembers", "createMany", recs)
                         EXCEPT !.pc = "lc_members"])
  /\ UNCHANGED <<now, authState, dbUsers, dbConvs, dbMessages, dbInvites, appState, chatState>>

\* lines 446-453: a store call of handleCreateGroup itself failed.
handleCreateGroup_catch(i) ==
  /\ i \in 1..Len(runs) /\ runs[i].op = "group"
  /\ runs[i].pc \in {"cg_createConv", "cg_createMembers"}
  /\ SetRun(i, Done(Toast(runs[i], "Failed to create group chat"), "error"))
  /\ UNCHANGED <<now, authState, store, appState, chatState>>

\* ------------------------------------------------------------- ChatView
\* App renders ChatView when a user is signed in and a conversation selected.
Mounted(s) == user[s] # NoUser /\ selected[s] # NoId

\* <Input disabled={sending || uploadProgress !== null}>, lines 472-484; the
\* Send button, lines 487-494, is disabled in these cases too.
InputEnabled(s) == ~sending[s] /\ uploadProgress[s] = Null

\* orderBy: {createdAt: 'asc'}: every order the store may return
SortedByCreatedAt(S) ==
  {q \in Orderings(S) :
     \A j, k \in 1..Len(q) : j < k => q[j].createdAt <= q[k].createdAt}

\* { ...msg, user: userData[0] }
MessageView(msg) ==
  [msg |-> msg,
   user |-> IF UserById(dbUsers, msg.userId) = {} THEN NoUser
            ELSE CHOOSE u \in UserById(dbUsers, msg.userId) : TRUE]

\* conversations.update(id, {lastMessageAt: Date.now(), updatedAt: Date.now()})
UpdateLastMessageAt(C, cid, t) ==
  {IF c.id = cid THEN [c EXCEPT !.lastMessageAt = t, !.updatedAt = t] ELSE c : c \in C}

\* What runs after loadMessages() has settled, up to the return of its
\* caller: onRefresh() calls loadConversations(user.id) without awaiting it,
\* then the caller's finally block runs.
AfterLoadMessages(i, r) ==
  CASE r.op = "send" ->
         /\ runs' = Append([runs EXCEPT ![i] = Done(r, "sent")],
                           NewRun("load", r.s, "lc_members"))
         /\ sending' = [sending EXCEPT ![r.s] = FALSE]
         /\ UNCHANGED uploadProgress
    [] r.op = "upload" ->
         /\ runs' = Append([runs EXCEPT ![i] =
                              Done(Toast(r, "File uploaded successfully"), "uploaded")],
                           NewRun("load", r.s, "lc_members"))
         /\ uploadProgress' = [uploadProgress EXCEPT ![r.s] = Null]
         /\ UNCHANGED sending
    [] OTHER ->
         /\ SetRun(i, Done(r, IF r.lmFailed THEN "error" ELSE "ok"))
         /\ UNCHANGED <<sending, uploadProgress>>

\* loadMessages, lines 70-87: the message list has answered and the user of
\* each message is looked up; an empty list is committed at once.
loadMessages_list(i) ==
  /\ i \in 1..Len(runs) /\ runs[i].pc = "lm_list"
  /\ LET r == Calls(runs[i], "messages")
     IN  \E q \in SortedByCreatedAt(MessagesOfConv(dbMessages, r.conv)) :
           IF q = <<>>
           THEN /\ messages' = [messages EXCEPT ![r.s] = <<>>]
                /\ loading' = [loading EXCEPT ![r.s] = FALSE]
                /\ AfterLoadMessages(i, r)
           ELSE /\ SetRun(i, [r EXCEPT !.msgs = q, !.pc = "lm_users"])
                /\ UNCHANGED <<messages, loading, sending, uploadProgress>>
  /\ UNCHANGED <<now, authState, store, appState, newMessage>>

\* The thread is committed only when its conversation is still the selected one.
loadMessages_usersChecked(i) ==
  /\ i \in 1..Len(runs) /\ runs[i].pc = "lm_users"
  /\ LET r == Calls(runs[i], "users")
     IN  /\ messages' = [messages EXCEPT
                           ![r.s] = IF selected[r.s] = r.conv
                                    THEN [k \in 1..Len(r.msgs) |-> MessageView(r.msgs[k])]
                                    ELSE @]
         /\ loading' = [loading EXCEPT ![r.s] = FALSE]
         /\ AfterLoadMessages(i, r)
  /\ UNCHANGED <<now, authState, store, appState, newMessage>>

\* loadMessages, lines 76-99: the user lookups have answered; the thread is
\* committed.
loadMessages_users(i) ==
  /\ i \in 1..Len(runs) /\ runs[i].pc = "lm_users"
  /\ LET r == Calls(runs[i], "users")
     IN  /\ messages' = [messages EXCEPT
                           ![r.s] = [k \in 1..Len(r.msgs) |-> MessageView(r.msgs[k])]]
         /\ loading' = [loading EXCEPT ![r.s] = FALSE]
         /\ AfterLoadMessages(i, r)
  /\ UNCHANGED <<now, authState, store, appState, newMessage>>

\* loadMessages, lines 90-99: a lookup failed; loadMessages reports it itself
\* and returns normally.
loadMessages_catch(i) ==
  /\ i \in 1..Len(runs) /\ runs[i].pc \in {"lm_list", "lm_users"}
  /\ loading' = [loading EXCEPT ![runs[i].s] = FALSE]
  /\ AfterLoadMessages(i, [Toast(runs[i], "Failed to load messages")
                             EXCEPT !.lmFailed = TRUE])
  /\ UNCHANGED <<now, authState, store, appState, messages, newMessage>>

\* <Input onChange={(e) => setNewMessage(e.target.value)}>, line 474.
onChange(s, text) ==
  /\ Mounted(s) /\ InputEnabled(s)
  /\ newMessage[s] # text
  /\ newMessage' = [newMessage EXCEPT ![s] = text]
  /\ UNCHANGED <<now, authState, store, appState, messages, sending, uploadProgress, loading, runs>>

\* if (!newMessage.trim()) return, line 117, on the text alone.
SendBlockedEmptyOnly(text, isSending) == text = <<>> \/ isSending
\* if (!newMessage.trim() || sending) return, line 117.
SendBlocked(text, isSending) == Trim(text) = <<>> \/ isSending

\* content: newMessage, untrimmed.
MessageContentRaw(text) == text
\* content: newMessage.trim(), line 127.
MessageContent(text) == Trim(text)

\* sendMessage is triggered (Enter in the input or the Send button), lines
\* 116-130: the guard, setSending(true), and the message create is issued.
sendMessage(s) ==
  /\ CanStart /\ Mounted(s) /\ InputEnabled(s)
  /\ IF SendBlocked(newMessage[s], sending[s])
     THEN /\ runs' = Append(runs, Done(NewRun("send", s, "sm_guard"), "noop"))
          /\ UNCHANGED sending
     ELSE /\ runs' = Append(runs, [NewRun("send", s, "sm_create") EXCEPT
                                     !.ts = now, !.text = MessageContent(newMessage[s])])
          /\ sending' = [sending EXCEPT ![s] = TRUE]
  /\ UNCHANGED <<now, authState, store, appState, messages, newMessage, uploadProgress, loading>>

\* The message is created and the input cleared at once.
sendMessage_createClears(i) ==
  /\ At(i, "send", "sm_create")
  /\ Cardinality(dbMessages) < MaxMsgs
  /\ LET r == runs[i]
         rec == [NoMsg EXCEPT !.id = RandomId(dbMessages, "msg", r.ts),
                              !.conversationId = r.conv,
                              !.userId = r.u.id,
                              !.content = r.text,
                              !.messageType = "text",
                              !.createdAt = r.ts]
     IN  /\ dbMessages' = dbMessages \cup {rec}
         /\ newMessage' = [newMessage EXCEPT ![r.s] = <<>>]
         /\ SetRun(i, [Wrote(r, "messages", "create", {rec})
                         EXCEPT !.pc = "sm_update", !.ts = now])
  /\ UNCHANGED <<now, authState, dbUsers, dbConvs, dbMembers, dbInvites, appState>>
  /\ UNCHANGED <<messages, sending, uploadProgress, loading>>

\* lines 123-136: the message is created; the conversation update is issued.
sendMessage_create(i) ==
  /\ At(i, "send", "sm_create")
  /\ Cardinality(dbMessages) < MaxMsgs
  /\ LET r == runs[i]
         rec == [NoMsg EXCEPT !.id = RandomId(dbMessages, "msg", r.ts),
                              !.conversationId = r.conv,
                              !.userId = r.u.id,
                              !.content = r.text,
                              !.messageType = "text",
                              !.createdAt = r.ts]
     IN  /\ dbMessages' = dbMessages \cup {rec}
         /\ SetRun(i, [Wrote(r, "messages", "create", {rec})
                         EXCEPT !.pc = "sm_update", !.ts = now])
  /\ UNCHANGED <<now, authState, dbUsers, dbConvs, dbMembers, dbInvites, appState, chatState>>

\* lines 133-139: the conversation is updated; the input is cleared and
\* loadMessages is called.
sendMessage_update(i) ==
  /\ At(i, "send", "sm_update")
  /\ LET r == runs[i]
     IN  /\ dbConvs' = UpdateLastMessageAt(dbConvs, r.conv, r.ts)
         /\ newMessage' = [newMessage EXCEPT ![r.s] = <<>>]
         /\ loading' = [loading EXCEPT ![r.s] = TRUE]
         /\ SetRun(i, [Wrote(r, "conversations", "update",
                             {c \in UpdateLastMessageAt(dbConvs, r.conv, r.ts) :
                                c.id = r.conv})
                         EXCEPT !.pc = "lm_list"])
  /\ UNCHANGED <<now, authState, dbUsers, dbMembers, dbMessages, dbInvites, appState>>
  /\ UNCHANGED <<messages, sending, uploadProgress>>

\* lines 141-150: the create or the update failed.
sendMessage_catch(i) ==
  /\ i \in 1..Len(runs) /\ runs[i].op = "send"
  /\ runs[i].pc \in {"sm_create", "sm_update"}
  /\ SetRun(i, Done(Toast(runs[i], "Failed to send message"), "error"))
  /\ sending' = [sending EXCEPT ![runs[i].s] = FALSE]
  /\ UNCHANGED <<now, authState, store, appState, messages, newMessage, uploadProgress, loading>>

\* The files a user picks or drops: an image, a text file, a file of no type.
Files ==
  {[name |-> <<"a">>, size |-> 1, type |-> <<"image", "/", "png">>],
   [name |-> <<"a", "a">>, size |-> 2, type |-> <<"text", "/", "plain">>]}

\* String.prototype.startsWith
StartsWith(t, prefix) ==
  Len(t) >= Len(prefix) /\ SubSeq(t, 1, Len(prefix)) = prefix

\* Every attachment is a 'file'.
MessageTypeAlwaysFile(file) == "file"
\* file.type.startsWith('image/') ? 'image' : 'file', line 171.
MessageTypeOf(file) == IF StartsWith(file.type, <<"image", "/">>) THEN "image" ELSE "file"

\* The percentages storage.upload reports through onProgress.
Percents == {50}

\* handleFileUpload(file), lines 153-167: setUploadProgress(0) and the upload
\* is issued.
handleFileUpload(s, file) ==
  /\ uploadProgress' = [uploadProgress EXCEPT ![s] = 0]
  /\ runs' = Append(runs, [NewRun("upload", s, "fu_upload") EXCEPT
                             !.file = file, !.ts = now])
  /\ UNCHANGED <<now, authState, store, appState, messages, newMessage, sending, loading>>

\* The file picker: the paperclip button, lines 461-469, is disabled while
\* uploadProgress is set; the hidden input calls handleFileUpload, lines 498-509.
onFileChange(s, file) ==
  /\ CanStart /\ Mounted(s) /\ uploadProgress[s] = Null
  /\ handleFileUpload(s, file)

\* handleDrop, lines 210-218: a file dropped on the thread.
handleDrop(s, file) ==
  /\ CanStart /\ Mounted(s)
  /\ handleFileUpload(s, file)

\* onProgress: (percent) => setUploadProgress(percent), line 165.
handleFileUpload_progress(i) ==
  /\ At(i, "upload", "fu_upload")
  /\ \E p \in Percents : uploadProgress' = [uploadProgress EXCEPT ![runs[i].s] = p]
  /\ UNCHANGED <<now, authState, store, appState, messages, newMessage, sending, loading, runs>>

\* lines 160-183: the upload has answered with its URL; the message create is
\* issued.
handleFileUpload_upload(i) ==
  /\ At(i, "upload", "fu_upload")
  /\ LET r == runs[i]
     IN  SetRun(i, [Calls(r, "storage") EXCEPT
                      !.url = <<"chat-files", r.conv, r.ts, r.file.name>>,
                      !.ts = now, !.pc = "fu_create"])
  /\ UNCHANGED <<now, authState, store, appState, chatState>>

\* lines 173-189: the message is created; the conversation update is issued.
handleFileUpload_create(i) ==
  /\ At(i, "upload", "fu_create")
  /\ Cardinality(dbMessages) < MaxMsgs
  /\ LET r == runs[i]
         rec == [NoMsg EXCEPT !.id = RandomId(dbMessages, "msg", r.ts),
                              !.conversationId = r.conv,
                              !.userId = r.u.id,
                              !.messageType = MessageTypeOf(r.file),
                              !.fileUrl = r.url,
                              !.fileName = r.file.name,
                              !.fileSize = r.file.size,
                              !.fileType = r.file.type,
                              !.createdAt = r.ts]
     IN  /\ dbMessages' = dbMessages \cup {rec}
         /\ SetRun(i, [Wrote(r, "messages", "create", {rec})
                         EXCEPT !.pc = "fu_update", !.ts = now])
  /\ UNCHANGED <<now, authState, dbUsers, dbConvs, dbMembers, dbInvites, appState, chatState>>

\* lines 186-191: the conversation is updated; loadMessages is called.
handleFileUpload_update(i) ==
  /\ At(i, "upload", "fu_update")
  /\ LET r == runs[i]
     IN  /\ dbConvs' = UpdateLastMessageAt(dbConvs, r.conv, r.ts)
         /\ loading' = [loading EXCEPT ![r.s] = TRUE]
         /\ SetRun(i, [Wrote(r, "conversations", "update",
                             {c \in UpdateLastMessageAt(dbConvs, r.conv, r.ts) :
                                c.id = r.conv})
                         EXCEPT !.pc = "lm_list"])
  /\ UNCHANGED <<now, authState, dbUsers, dbMembers, dbMessages, dbInvites, appState>>
  /\ UNCHANGED <<messages, newMessage, sending, uploadProgress>>

\* lines 198-207: the upload, the create or the update failed.
handleFileUpload_catch(i) ==
  /\ i \in 1..Len(runs) /\ runs[i].op = "upload"
  /\ runs[i].pc \in {"fu_upload", "fu_create", "fu_update"}
  /\ SetRun(i, Done(Toast(runs[i], "Failed to upload file"), "error"))
  /\ uploadProgress' = [uploadProgress EXCEPT ![runs[i].s] = Null]
  /\ UNCHANGED <<now, authState, store, appState, messages, newMessage, sending, loading>>

\* ------------------------------------------------------ Session Bootstrap
\* The accounts the auth provider can report (state.user: id and email).
Identities == {[id |-> UserA.id, email |-> <<"a", "@", "x">>]}

\* email.split('@')[0]
RECURSIVE LocalPart(_)
LocalPart(email) ==
  IF email = <<>> \/ Head(email) = "@" THEN <<>>
  ELSE <<Head(email)>> \o LocalPart(Tail(email))

\* authenticatedUser of lines 292-298 (and the record of lines 283-290).
AuthenticatedUser(identity) ==
  [id |-> identity.id, displayName |-> LocalPart(identity.email), isGuest |-> FALSE]

\* The callback given to blink.auth.onAuthStateChanged is called with a
\* signed-in account: lines 279-290. Its closure holds the inviteCode of the
\* render that subscribed it.
onAuthStateChanged(s, identity) ==
  /\ CanStart
  /\ runs' = Append(runs, [NewRun("auth", s, "au_create")
                             EXCEPT !.u = AuthenticatedUser(identity),
                                    !.code = inviteCode[s]])
  /\ UNCHANGED <<now, authState, store, appState, chatState>>

\* The callback is called without an account: lines 318-324.
onAuthStateChanged_signedOut(s) ==
  /\ showGuestLogin' = [showGuestLogin EXCEPT
                          ![s] = IF inviteCode[s] # 0 \/ @ THEN TRUE ELSE @]
  /\ user' = [user EXCEPT ![s] = NoUser]
  /\ UNCHANGED <<now, store, inviteCode, conversations, selected, chatState, runs>>

\* lines 283-303: users.create has answered. The store refuses a record
\* whose id it already holds, which lands in the catch of lines 310-316;
\* otherwise setUser and loadConversations(state.user.id).
onAuthStateChanged_create(i) ==
  /\ At(i, "auth", "au_create")
  /\ LET r == runs[i]
     IN  IF HasId(dbUsers, r.u.id)
         THEN /\ SetRun(i, Done(Toast(r, "Failed to initialize user profile"), "refused"))
              /\ UNCHANGED <<dbUsers, user>>
         ELSE /\ dbUsers' = dbUsers \cup {r.u}
              /\ user' = [user EXCEPT ![r.s] = r.u]
              /\ SetRun(i, [Wrote(r, "users", "create", {r.u}) EXCEPT !.pc = "lc_members"])
  /\ UNCHANGED <<now, authState, dbConvs, dbMembers, dbMessages, dbInvites>>
  /\ UNCHANGED <<conversations, selected, chatState>>

\* The catch that sets the user all the same.
onAuthStateChanged_catchSetsUser(i) ==
  /\ At(i, "auth", "au_create")
  /\ user' = [user EXCEPT ![runs[i].s] = runs[i].u]
  /\ SetRun(i, Done(Toast(runs[i], "Failed to initialize user profile"), "error"))
  /\ UNCHANGED <<now, authState, store, conversations, selected, chatState>>

\* lines 310-316: users.create failed.
onAuthStateChanged_catch(i) ==
  /\ At(i, "auth", "au_create")
  /\ SetRun(i, Done(Toast(runs[i], "Failed to initialize user profile"), "error"))
  /\ UNCHANGED <<now, authState, store, appState, chatState>>

\* The guest accounts of one exploration.
GuestCount(U) == Cardinality({x \in U : x.isGuest /\ x.id[2] > 0})

\* The guest users of the handleGuestLogin calls in flight and of the store:
\* the random suffix of a new guest id is one none of them has.
KnownGuests == dbUsers \cup {runs[k].u : k \in {j \in 1..Len(runs) : runs[j].op = "guest"}}

\* handleGuestLogin(guestName) is called: lines 230-243.
handleGuestLogin(s, guestName) ==
  /\ CanStart /\ GuestCount(KnownGuests) < MaxGuests
  /\ runs' = Append(runs, [NewRun("guest", s, "gl_create")
                             EXCEPT !.u = [id |-> RandomId(KnownGuests, "guest", now),
                                           displayName |-> guestName,
                                           isGuest |-> TRUE],
                                    !.name = guestName,
                                    !.code = inviteCode[s]])
  /\ UNCHANGED <<now, authState, store, appState, chatState>>

\* lines 235-265: the guest record is created; setUser, setShowGuestLogin(false),
\* then the join when a code is pending, else the toast "Welcome!".
handleGuestLogin_create(i) ==
  /\ At(i, "guest", "gl_create")
  /\ LET r == runs[i]
     IN  /\ ~HasId(dbUsers, r.u.id)
         /\ dbUsers' = dbUsers \cup {r.u}
         /\ user' = [user EXCEPT ![r.s] = r.u]
         /\ showGuestLogin' = [showGuestLogin EXCEPT ![r.s] = FALSE]
         /\ LET w == Wrote(r, "users", "create", {r.u})
            IN  IF r.code # 0
                THEN SetRun(i, [w EXCEPT !.pc = "ij_invites"])
                ELSE SetRun(i, Done(Toast(w, "Welcome!"), "signedin"))
  /\ UNCHANGED <<now, inviteCode, dbConvs, dbMembers, dbMessages, dbInvites>>
  /\ UNCHANGED <<conversations, selected, chatState>>

\* lines 266-273: users.create failed.
handleGuestLogin_catch(i) ==
  /\ At(i, "guest", "gl_create")
  /\ SetRun(i, Done(Toast(runs[i], "Failed to sign in as guest"), "error"))
  /\ UNCHANGED <<now, authState, store, appState, chatState>>

\* GuestLogin.handleGuestSubmit, part_000 lines 12-17, reached through the
\* form's submit: the `required` input keeps an empty name from submitting,
\* and a name of blanks only is dropped without a word.
handleGuestSubmit(s, guestName) ==
  /\ showGuestLogin[s] /\ guestName # <<>>
  /\ IF Trim(guestName) # <<>>
     THEN handleGuestLogin(s, Trim(guestName))
     ELSE /\ CanStart
          /\ runs' = Append(runs, Done([NewRun("guest", s, "gl_submit")
                                          EXCEPT !.name = guestName], "noop"))
          /\ UNCHANGED <<now, authState, store, appState, chatState>>

\* ChatSidebar.handleLogout, part_000 lines 189-191: blink.auth.logout(), on
\* which the provider reports "no account" to the auth callback.
handleLogout(s) ==
  /\ user[s] # NoUser /\ ~showGuestLogin[s]
  /\ onAuthStateChanged_signedOut(s)

\* The welcome screen's "Continue as Guest": App.tsx line 495.
onContinueAsGuest(s) ==
  /\ user[s] = NoUser /\ ~showGuestLogin[s]
  /\ showGuestLogin' = [showGuestLogin EXCEPT ![s] = TRUE]
  /\ UNCHANGED <<now, store, appState, inviteCode, chatState, runs>>

\* GuestLogin's "Sign In with Account": setShowGuestLogin(false), then the
\* provider's login page.
onSignIn(s) ==
  /\ showGuestLogin[s]
  /\ showGuestLogin' = [showGuestLogin EXCEPT ![s] = FALSE]
  /\ UNCHANGED <<now, store, appState, inviteCode, chatState, runs>>

\* ------------------------------------------------------ the specification
\* The store before the model starts: a group conversation of user B and one
\* invite to it, with every combination of flag, expiry and cap.
Conv0 ==
  [id |-> <<"conv", 0, Null, 1>>, type |-> "group", name |-> <<"a">>, description |-> <<>>,
   createdBy |-> UserB.id, createdAt |-> 0, updatedAt |-> 0, lastMessageAt |-> 0]
Member0 ==
  [id |-> <<"member", 0, 0, 0>>, conversationId |-> Conv0.id, userId |-> UserB.id,
   role |-> "admin"]
Invites0 ==
  {[id |-> <<"invite", 0, Null, 0>>, conversationId |-> Conv0.id, createdBy |-> UserB.id,
    inviteCode |-> 1, expiresAt |-> e, maxUses |-> m, currentUses |-> 0,
    isActive |-> a] : e \in {Null, 1, MaxTime}, m \in {Null, 1}, a \in BOOLEAN}

InitChat ==
  /\ messages = [s \in Sessions |-> <<>>]
  /\ newMessage = [s \in Sessions |-> <<>>]
  /\ sending = [s \in Sessions |-> FALSE]
  /\ uploadProgress = [s \in Sessions |-> Null]
  /\ loading = [s \in Sessions |-> TRUE]

\* useState<string | null>(null) for inviteCode, useState(false) for
\* showGuestLogin.
InitAuthState ==
  /\ inviteCode = [s \in Sessions |-> 0]
  /\ showGuestLogin = [s \in Sessions |-> FALSE]

InitApp ==
  /\ now = 1
  /\ InitAuthState
  /\ dbUsers = AllUsers
  /\ dbMessages = {}
  /\ conversations = [s \in Sessions |-> <<>>]
  /\ selected = [s \in Sessions |-> NoId]
  /\ InitChat
  /\ runs = <<>>

\* One handler at a time: a gesture is accepted when nothing is in flight.
Quiet == runs = <<>>

\* Invite redemption and the conversation directory: the user of session s1
\* (an account or a guest) redeems and generates invites to the conversation
\* of user B, one handler at a time.
Init ==
  /\ InitApp
  /\ dbConvs = {Conv0}
  /\ dbMembers = {Member0}
  /\ \E v \in Invites0 : dbInvites = {v}
  /\ \E u \in {UserA, UserG} : user = [s \in Sessions |-> IF s = "s1" THEN u ELSE NoUser]

Next ==
  \/ Quiet /\ onRefresh("s1")
  \/ Quiet /\ onSelectConversation("s1")
  \/ \E code \in 0..(1 + MaxInvites) : Quiet /\ handleInviteJoin("s1", code)
  \/ \E e \in ExpiresInOptions, m \in MaxUsesOptions :
       Quiet /\ generateInviteLink("s1", e, m)
  \/ \E i \in 1..Len(runs) : loadConversations_members(i)
  \/ \E i \in 1..Len(runs) : loadConversations_convs(i)
  \/ \E i \in 1..Len(runs) : loadConversations_details(i)
  \/ \E i \in 1..Len(runs) : loadConversations_catch(i)
  \/ \E i \in 1..Len(runs) : loadMessages_list(i)
  \/ \E i \in 1..Len(runs) : loadMessages_catch(i)
  \/ \E i \in 1..Len(runs) : handleInviteJoin_invites(i)
  \/ \E i \in 1..Len(runs) : handleInviteJoin_existing(i)
  \/ \E i \in 1..Len(runs) : handleInviteJoin_create(i)
  \/ \E i \in 1..Len(runs) : handleInviteJoin_update(i)
  \/ \E i \in 1..Len(runs) : handleInviteJoin_conv(i)
  \/ \E i \in 1..Len(runs) : handleInviteJoin_catch(i)
  \/ \E i \in 1..Len(runs) : generateInviteLink_me(i)
  \/ \E i \in 1..Len(runs) : generateInviteLink_create(i)
  \/ \E i \in 1..Len(runs) : generateInviteLink_catch(i)
  \/ \E i \in 1..Len(runs) : Retire(i)
  \/ Tick

Spec == Init /\ [][Next]_vars

\* The membership manager: session s1 (user A or the guest) creates private
\* and group chats and invites, session s2 (the other one) redeems invites;
\* one handler at a time.
InitMembers ==
  /\ InitApp
  /\ dbConvs = {}
  /\ dbMembers = {}
  /\ dbInvites = {}
  /\ \E u \in {UserA, UserG} :
       user = [s \in Sessions |-> IF s = "s1" THEN u
                                  ELSE CHOOSE o \in {UserA, UserG} : o # u]

NextMembers ==
  \/ Quiet /\ onSelectConversation("s1")
  \/ \E code \in 1..MaxInvites : Quiet /\ handleInviteJoin("s2", code)
  \/ \E e \in ExpiresInOptions, m \in MaxUsesOptions \ {1} :
       Quiet /\ generateInviteLink("s1", e, m)
  \/ \E t \in UserIds : Quiet /\ handleCreatePrivateChat("s1", t)
  \/ \E f \in DialogForms(user["s1"].id) : Quiet /\ onCreateGroupClick("s1", f)
  \/ \E i \in 1..Len(runs) : loadConversations_members(i)
  \/ \E i \in 1..Len(runs) : loadConversations_convs(i)
  \/ \E i \in 1..Len(runs) : loadConversations_details(i)
  \/ \E i \in 1..Len(runs) : loadConversations_catch(i)
  \/ \E i \in 1..Len(runs) : loadMessages_list(i)
  \/ \E i \in 1..Len(runs) : loadMessages_catch(i)
  \/ \E i \in 1..Len(runs) : handleInviteJoin_invites(i)
  \/ \E i \in 1..Len(runs) : handleInviteJoin_existing(i)
  \/ \E i \in 1..Len(runs) : handleInviteJoin_create(i)
  \/ \E i \in 1..Len(runs) : handleInviteJoin_update(i)
  \/ \E i \in 1..Len(runs) : handleInviteJoin_conv(i)
  \/ \E i \in 1..Len(runs) : handleInviteJoin_catch(i)
  \/ \E i \in 1..Len(runs) : generateInviteLink_me(i)
  \/ \E i \in 1..Len(runs) : generateInviteLink_create(i)
  \/ \E i \in 1..Len(runs) : generateInviteLink_catch(i)
  \/ \E i \in 1..Len(runs) : handleCreatePrivateChat_memberships(i)
  \/ \E i \in 1..Len(runs) : handleCreatePrivateChat_conv(i)
  \/ \E i \in 1..Len(runs) : handleCreatePrivateChat_others(i)
  \/ \E i \in 1..Len(runs) : handleCreatePrivateChat_createConv(i)
  \/ \E i \in 1..Len(runs) : handleCreatePrivateChat_createMembers(i)
  \/ \E i \in 1..Len(runs) : handleCreatePrivateChat_catch(i)
  \/ \E i \in 1..Len(runs) : handleCreateGroup_createConv(i)
  \/ \E i \in 1..Len(runs) : handleCreateGroup_createMembers(i)
  \/ \E i \in 1..Len(runs) : handleCreateGroup_catch(i)
  \/ \E i \in 1..Len(runs) : Retire(i)
  \/ Tick

SpecMembers == InitMembers /\ [][NextMembers]_vars

\* The message thread: user A, a member of the conversation of user B, reads
\* and writes its thread; handlers overlap, at most MaxRuns at a time.
MemberA0 ==
  [id |-> <<"member", 0, 1, 0>>, conversationId |-> Conv0.id, userId |-> UserA.id,
   role |-> "member"]

InitThread ==
  /\ now = 1
  /\ InitAuthState
  /\ dbUsers = AllUsers
  /\ dbMessages = {}
  /\ dbConvs = {[Conv0 EXCEPT !.lastMessageAt = 1, !.updatedAt = 1]}
  /\ dbMembers = {Member0, MemberA0}
  /\ dbInvites = {}
  /\ user = [s \in Sessions |-> IF s = "s1" THEN UserA ELSE NoUser]
  /\ conversations =
       [s \in Sessions |->
          IF s = "s1" THEN <<ConversationView(CHOOSE c \in dbConvs : TRUE, NoMsg)>>
          ELSE <<>>]
  /\ selected = [s \in Sessions |-> NoId]
  /\ InitChat
  /\ runs = <<>>

\* A returned invocation is forgotten before anything else happens.
Settled == \A k \in 1..Len(runs) : runs[k].pc # "done"

NextThread ==
  \/ Settled /\ onSelectConversation("s1")
  \/ \E text \in Texts : Settled /\ onChange("s1", text)
  \/ Settled /\ sendMessage("s1")
  \/ \E file \in Files : Settled /\ onFileChange("s1", file)
  \/ \E file \in Files : Settled /\ handleDrop("s1", file)
  \/ \E i \in 1..Len(runs) : Settled /\ loadConversations_members(i)
  \/ \E i \in 1..Len(runs) : Settled /\ loadConversations_convs(i)
  \/ \E i \in 1..Len(runs) : Settled /\ loadConversations_details(i)
  \/ \E i \in 1..Len(runs) : Settled /\ loadConversations_catch(i)
  \/ \E i \in 1..Len(runs) : Settled /\ loadMessages_list(i)
  \/ \E i \in 1..Len(runs) : Settled /\ loadMessages_users(i)
  \/ \E i \in 1..Len(runs) : Settled /\ loadMessages_catch(i)
  \/ \E i \in 1..Len(runs) : Settled /\ sendMessage_create(i)
  \/ \E i \in 1..Len(runs) : Settled /\ sendMessage_update(i)
  \/ \E i \in 1..Len(runs) : Settled /\ sendMessage_catch(i)
  \/ \E i \in 1..Len(runs) : Settled /\ handleFileUpload_progress(i)
  \/ \E i \in 1..Len(runs) : Settled /\ handleFileUpload_upload(i)
  \/ \E i \in 1..Len(runs) : Settled /\ handleFileUpload_create(i)
  \/ \E i \in 1..Len(runs) : Settled /\ handleFileUpload_update(i)
  \/ \E i \in 1..Len(runs) : Settled /\ handleFileUpload_catch(i)
  \/ \E i \in 1..Len(runs) : Retire(i)
  \/ Settled /\ Tick

SpecThread == InitThread /\ [][NextThread]_vars

\* Concurrent redemption: two sessions (the same account in two tabs, or an
\* account and a guest) redeem one invite to the conversation of user B, their
\* handlers overlapping.
InitRedeem ==
  /\ InitApp
  /\ dbConvs = {Conv0}
  /\ dbMembers = {Member0}
  /\ \E v \in Invites0 : v.isActive /\ v.expiresAt = Null /\ dbInvites = {v}
  /\ \E u \in {UserA, UserG} : user = [s \in Sessions |-> IF s = "s1" THEN UserA ELSE u]

\* A session opens the invite link while it shows no conversation and has no
\* redemption in flight.
Fresh(s) ==
  /\ conversations[s] = <<>> /\ selected[s] = NoId
  /\ \A k \in 1..Len(runs) : runs[k].s # s

NextRedeem ==
  \/ \E s \in Sessions : Settled /\ Fresh(s) /\ handleInviteJoin(s, 1)
  \/ \E i \in 1..Len(runs) : Settled /\ loadConversations_members(i)
  \/ \E i \in 1..Len(runs) : Settled /\ loadConversations_convs(i)
  \/ \E i \in 1..Len(runs) : Settled /\ loadConversations_details(i)
  \/ \E i \in 1..Len(runs) : Settled /\ loadConversations_catch(i)
  \/ \E i \in 1..Len(runs) : Settled /\ loadMessages_list(i)
  \/ \E i \in 1..Len(runs) : Settled /\ loadMessages_catch(i)
  \/ \E i \in 1..Len(runs) : Settled /\ handleInviteJoin_invites(i)
  \/ \E i \in 1..Len(runs) : Settled /\ handleInviteJoin_existing(i)
  \/ \E i \in 1..Len(runs) : Settled /\ handleInviteJoin_create(i)
  \/ \E i \in 1..Len(runs) : Settled /\ handleInviteJoin_update(i)
  \/ \E i \in 1..Len(runs) : Settled /\ handleInviteJoin_conv(i)
  \/ \E i \in 1..Len(runs) : Settled /\ handleInviteJoin_catch(i)
  \/ \E i \in 1..Len(runs) : Retire(i)
  \/ Settled /\ Tick

SpecRedeem == InitRedeem /\ [][NextRedeem]_vars

\* Session bootstrap: session s1 opens the page, with or without an invite
\* code in its address (App.tsx 50-58), nobody signed in; the account A is new
\* to the store or known to it. The provider reports "no account" only
\* while nobody is signed in: signing out is not part of this exploration.
InitAuth ==
  /\ now = 1
  /\ \E U \in {{UserB}, {UserA, UserB}} : dbUsers = U
  /\ dbMessages = {}
  /\ dbConvs = {Conv0}
  /\ dbMembers = {Member0}
  /\ \E v \in Invites0 : v.expiresAt = Null /\ v.maxUses = Null /\ dbInvites = {v}
  /\ user = [s \in Sessions |-> NoUser]
  /\ conversations = [s \in Sessions |-> <<>>]
  /\ selected = [s \in Sessions |-> NoId]
  /\ InitChat
  /\ \E c \in {0, 1} : inviteCode = [s \in Sessions |-> IF s = "s1" THEN c ELSE 0]
  /\ showGuestLogin = [s \in Sessions |-> FALSE]
  /\ runs = <<>>

NextAuth ==
  \/ \E identity \in Identities : Settled /\ onAuthStateChanged("s1", identity)
  \/ Settled /\ user["s1"] = NoUser /\ onAuthStateChanged_signedOut("s1")
  \/ Settled /\ onContinueAsGuest("s1")
  \/ Settled /\ onSignIn("s1")
  \/ \E guestName \in Texts : Settled /\ handleGuestSubmit("s1", guestName)
  \/ \E i \in 1..Len(runs) : Settled /\ onAuthStateChanged_create(i)
  \/ \E i \in 1..Len(runs) : Settled /\ onAuthStateChanged_catch(i)
  \/ \E i \in 1..Len(runs) : Settled /\ handleGuestLogin_create(i)
  \/ \E i \in 1..Len(runs) : Settled /\ handleGuestLogin_catch(i)
  \/ \E i \in 1..Len(runs) : Settled /\ loadConversations_members(i)
  \/ \E i \in 1..Len(runs) : Settled /\ loadConversations_convs(i)
  \/ \E i \in 1..Len(runs) : Settled /\ loadConversations_details(i)
  \/ \E i \in 1..Len(runs) : Settled /\ loadConversations_catch(i)
  \/ \E i \in 1..Len(runs) : Settled /\ loadMessages_list(i)
  \/ \E i \in 1..Len(runs) : Settled /\ loadMessages_catch(i)
  \/ \E i \in 1..Len(runs) : Settled /\ handleInviteJoin_invites(i)
  \/ \E i \in 1..Len(runs) : Settled /\ handleInviteJoin_existing(i)
  \/ \E i \in 1..Len(runs) : Settled /\ handleInviteJoin_create(i)
  \/ \E i \in 1..Len(runs) : Settled /\ handleInviteJoin_update(i)
  \/ \E i \in 1..Len(runs) : Settled /\ handleInviteJoin_conv(i)
  \/ \E i \in 1..Len(runs) : Settled /\ handleInviteJoin_catch(i)
  \/ \E i \in 1..Len(runs) : Retire(i)

SpecAuth == InitAuth /\ [][NextAuth]_vars

\* Concurrent private chats: A in one session, B (or A again, in a second
\* tab) in the other; each opens a chat with the other user of the pair while
\* the store holds no conversation yet.
InitPair ==
  /\ InitApp
  /\ dbConvs = {}
  /\ dbMembers = {}
  /\ dbInvites = {}
  /\ \E u \in {UserA, UserB} : user = [s \in Sessions |-> IF s = "s1" THEN UserA ELSE u]

\* The other user of the pair {A, B}.
Partner(u) == IF u.id = UserA.id THEN UserB.id ELSE UserA.id

NextPair ==
  \/ \E s \in Sessions : Settled /\ Fresh(s) /\ handleCreatePrivateChat(s, Partner(user[s]))
  \/ \E i \in 1..Len(runs) : Settled /\ handleCreatePrivateChat_memberships(i)
  \/ \E i \in 1..Len(runs) : Settled /\ handleCreatePrivateChat_conv(i)
  \/ \E i \in 1..Len(runs) : Settled /\ handleCreatePrivateChat_others(i)
  \/ \E i \in 1..Len(runs) : Settled /\ handleCreatePrivateChat_createConv(i)
  \/ \E i \in 1..Len(runs) : Settled /\ handleCreatePrivateChat_createMembers(i)
  \/ \E i \in 1..Len(runs) : Settled /\ handleCreatePrivateChat_catch(i)
  \/ \E i \in 1..Len(runs) : Settled /\ loadConversations_members(i)
  \/ \E i \in 1..Len(runs) : Settled /\ loadConversations_convs(i)
  \/ \E i \in 1..Len(runs) : Settled /\ loadConversations_details(i)
  \/ \E i \in 1..Len(runs) : Settled /\ loadConversations_catch(i)
  \/ \E i \in 1..Len(runs) : Settled /\ loadMessages_list(i)
  \/ \E i \in 1..Len(runs) : Settled /\ loadMessages_catch(i)
  \/ \E i \in 1..Len(runs) : Retire(i)
  \/ Settled /\ Tick

SpecPair == InitPair /\ [][NextPair]_vars

\* Switching threads: user A is a member of two conversations of user B and
\* goes from one to the other while message loads are in flight.
ConvY ==
  [Conv0 EXCEPT !.id = <<"conv", 0, Null, 2>>, !.name = <<"b">>,
                !.lastMessageAt = 1, !.updatedAt = 1]
ConvX == [Conv0 EXCEPT !.lastMessageAt = 1, !.updatedAt = 1]
MsgIn(conv, k, text) ==
  [NoMsg EXCEPT !.id = <<"msg", 0, Null, k>>, !.conversationId = conv.id,
                !.userId = UserB.id, !.content = text, !.messageType = "text",
                !.createdAt = 1]

InitSwitch ==
  /\ now = 1
  /\ InitAuthState
  /\ dbUsers = AllUsers
  /\ \E Ms \in {{MsgIn(ConvX, 1, <<"a">>)},
                 {MsgIn(ConvX, 1, <<"a">>), MsgIn(ConvY, 2, <<"b">>)}} : dbMessages = Ms
  /\ dbConvs = {ConvX, ConvY}
  /\ dbMembers = {Member0, MemberA0} \cup
                 {[id |-> <<"member", 0, k, 1>>, conversationId |-> ConvY.id,
                   userId |-> IF k = 0 THEN UserB.id ELSE UserA.id,
                   role |-> IF k = 0 THEN "admin" ELSE "member"] : k \in {0, 1}}
  /\ dbInvites = {}
  /\ user = [s \in Sessions |-> IF s = "s1" THEN UserA ELSE NoUser]
  /\ conversations =
       [s \in Sessions |->
          IF s = "s1"
          THEN [k \in 1..2 |->
                  LET c == IF k = 1 THEN ConvX ELSE ConvY
                      ms == MessagesOfConv(dbMessages, c.id)
                  IN  ConversationView(c, IF ms = {} THEN NoMsg ELSE CHOOSE m \in ms : TRUE)]
          ELSE <<>>]
  /\ selected = [s \in Sessions |-> NoId]
  /\ InitChat
  /\ runs = <<>>

NextSwitch ==
  \/ Settled /\ CanStart /\ onSelectConversation("s1")
  \/ \E text \in Texts : Settled /\ onChange("s1", text)
  \/ \E i \in 1..Len(runs) : Settled /\ loadMessages_list(i)
  \/ \E i \in 1..Len(runs) : Settled /\ loadMessages_users(i)
  \/ \E i \in 1..Len(runs) : Settled /\ loadMessages_catch(i)
  \/ \E i \in 1..Len(runs) : Retire(i)

SpecSwitch == InitSwitch /\ [][NextSwitch]_vars

\* Guest sessions: the page of InitAuth, nobody ever signing in with an
\* account or signing out; the provider may report "no account" at any time
\* (it does so whenever the auth callback is subscribed again).
NextGuest ==
  \/ Settled /\ onAuthStateChanged_signedOut("s1")
  \/ Settled /\ onContinueAsGuest("s1")
  \/ Settled /\ onSignIn("s1")
  \/ \E guestName \in Texts : Settled /\ handleGuestSubmit("s1", guestName)
  \/ \E i \in 1..Len(runs) : Settled /\ handleGuestLogin_create(i)
  \/ \E i \in 1..Len(runs) : Settled /\ handleGuestLogin_catch(i)
  \/ \E i \in 1..Len(runs) : Settled /\ loadConversations_members(i)
  \/ \E i \in 1..Len(runs) : Settled /\ loadConversations_convs(i)
  \/ \E i \in 1..Len(runs) : Settled /\ loadConversations_details(i)
  \/ \E i \in 1..Len(runs) : Settled /\ loadConversations_catch(i)
  \/ \E i \in 1..Len(runs) : Settled /\ loadMessages_list(i)
  \/ \E i \in 1..Len(runs) : Settled /\ loadMessages_catch(i)
  \/ \E i \in 1..Len(runs) : Settled /\ handleInviteJoin_invites(i)
  \/ \E i \in 1..Len(runs) : Settled /\ handleInviteJoin_existing(i)
  \/ \E i \in 1..Len(runs) : Settled /\ handleInviteJoin_create(i)
  \/ \E i \in 1..Len(runs) : Settled /\ handleInviteJoin_update(i)
  \/ \E i \in 1..Len(runs) : Settled /\ handleInviteJoin_conv(i)
  \/ \E i \in 1..Len(runs) : Settled /\ handleInviteJoin_catch(i)
  \/ \E i \in 1..Len(runs) : Retire(i)

SpecGuest == InitAuth /\ [][NextGuest]_vars

\* Changing users in one page: A, a member of the conversation of B, is
\* signed in with the conversation list loaded; A may open the thread, write
\* and sign out, and a visitor may then continue as guest in the same page.
NextSession ==
  \/ Settled /\ CanStart /\ onSelectConversation("s1")
  \/ Settled /\ handleLogout("s1")
  \/ Settled /\ onContinueAsGuest("s1")
  \/ Settled /\ handleGuestSubmit("s1", <<"a">>)
  \/ \E text \in {<<>>, <<"a">>} : Settled /\ onChange("s1", text)
  \/ Settled /\ sendMessage("s1")
  \/ \E i \in 1..Len(runs) : Settled /\ handleGuestLogin_create(i)
  \/ \E i \in 1..Len(runs) : Settled /\ handleGuestLogin_catch(i)
  \/ \E i \in 1..Len(runs) : Settled /\ sendMessage_create(i)
  \/ \E i \in 1..Len(runs) : Settled /\ sendMessage_update(i)
  \/ \E i \in 1..Len(runs) : Settled /\ sendMessage_catch(i)
  \/ \E i \in 1..Len(runs) : Settled /\ loadMessages_list(i)
  \/ \E i \in 1..Len(runs) : Settled /\ loadMessages_users(i)
  \/ \E i \in 1..Len(runs) : Settled /\ loadMessages_catch(i)
  \/ \E i \in 1..Len(runs) : Settled /\ loadConversations_members(i)
  \/ \E i \in 1..Len(runs) : Settled /\ loadConversations_convs(i)
  \/ \E i \in 1..Len(runs) : Settled /\ loadConversations_details(i)
  \/ \E i \in 1..Len(runs) : Settled /\ loadConversations_catch(i)
  \/ \E i \in 1..Len(runs) : Retire(i)

SpecSession == InitThread /\ [][NextSession]_vars

\* ================================================================ claims
DoneRuns(op) == {i \in 1..Len(runs) : runs[i].op = op /\ runs[i].pc = "done"}

\* The invite a redemption is about, as the store held it when the run began.
PreInvites(r) == {v \in r.pre.invites : v.inviteCode = r.code}
WroteNothing(r) ==
  /\ r.writes = <<>>
  /\ dbMembers = r.pre.members
  /\ dbInvites = r.pre.invites
  /\ dbConvs = r.pre.convs

\* C2, as stated: whenever redeemInvite runs on an invite whose currentUses
\* equals its maxUses (and no store call fails), it ends with the limit-reached
\* outcome and has written nothing.
C2_AtCapAlwaysLimit ==
  \A i \in DoneRuns("invite") :
    LET r == runs[i] IN
      \A v \in PreInvites(r) :
        (r.outcome # "error" /\ v.currentUses = v.maxUses)
          => (r.outcome = "limit" /\ WroteNothing(r))

\* C2, amended: redeemInvite on an invite whose currentUses equals its maxUses
\* writes nothing (no membership, currentUses unchanged); it ends with the
\* limit-reached outcome when the invite is active and not expired, and with
\* the expired outcome when it had already expired.
C2_AtCapNoWrite ==
  \A i \in DoneRuns("invite") :
    LET r == runs[i] IN
      \A v \in PreInvites(r) :
        (r.outcome # "error" /\ v.currentUses = v.maxUses)
          => /\ WroteNothing(r)
             /\ (v.isActive /\ ~InviteExpired(v, now)) => r.outcome = "limit"
             /\ (v.isActive /\ InviteExpired(v, r.pre.now)) => r.outcome = "expired"

C2_Witness ==
  \E i \in DoneRuns("invite") :
    /\ runs[i].outcome = "limit"
    /\ \E v \in PreInvites(runs[i]) : v.currentUses = v.maxUses /\ v.currentUses > 0

\* C3, as stated: whenever redeemInvite runs on an invite whose expiresAt is
\* in the past (and no store call fails), it ends with the expired outcome,
\* whatever isActive is, and has written nothing.
C3_ExpiredWhateverActive ==
  \A i \in DoneRuns("invite") :
    LET r == runs[i] IN
      \A v \in PreInvites(r) :
        (r.outcome # "error" /\ Truthy(v.expiresAt) /\ v.expiresAt < r.pre.now)
          => (r.outcome = "expired" /\ WroteNothing(r))

\* C3, amended: redeemInvite on an invite whose expiresAt is in the past writes
\* nothing; it ends with the expired outcome when isActive is true and with the
\* invalid-or-expired outcome when isActive is false.
C3_ExpiredByFlag ==
  \A i \in DoneRuns("invite") :
    LET r == runs[i] IN
      \A v \in PreInvites(r) :
        (r.outcome # "error" /\ Truthy(v.expiresAt) /\ v.expiresAt < r.pre.now)
          => /\ WroteNothing(r)
             /\ v.isActive => r.outcome = "expired"
             /\ ~v.isActive => r.outcome = "invalid"

C3_Witness ==
  \E i \in DoneRuns("invite") :
    /\ runs[i].outcome = "expired"
    /\ \E v \in PreInvites(runs[i]) :
         Truthy(v.expiresAt) /\ v.expiresAt < runs[i].pre.now /\ v.isActive

\* C4: a redemption by a user who is not yet a member, of an active, unexpired
\* invite below its cap, with no store failure and nothing interleaved, creates
\* exactly one membership (the invite's conversation, the user, role guest for
\* a guest and member otherwise), raises currentUses by exactly one, leaves the
\* conversation in the reloaded list and selects it.
C4_RedeemJoins ==
  \A i \in DoneRuns("invite") :
    LET r == runs[i] IN
      \A v \in PreInvites(r) :
        (/\ r.outcome # "error" /\ ~r.lcFailed
         /\ v.isActive /\ ~InviteExpired(v, now) /\ ~InviteExhausted(v)
         /\ Membership(r.pre.members, v.conversationId, r.u.id) = {})
          => /\ r.outcome = "joined"
             /\ \E rec \in dbMembers \ r.pre.members :
                  /\ dbMembers = r.pre.members \cup {rec}
                  /\ rec.conversationId = v.conversationId
                  /\ rec.userId = r.u.id
                  /\ rec.role = (IF r.u.isGuest THEN "guest" ELSE "member")
             /\ dbInvites =
                  (r.pre.invites \ {v}) \cup {[v EXCEPT !.currentUses = v.currentUses + 1]}
             /\ \E k \in 1..Len(conversations[r.s]) :
                  conversations[r.s][k].conv.id = v.conversationId
             /\ selected[r.s] = v.conversationId

C4_Witness ==
  \E i \in DoneRuns("invite") :
    /\ runs[i].outcome = "joined" /\ ~runs[i].lcFailed /\ runs[i].u.isGuest
    /\ \E v \in PreInvites(runs[i]) :
         /\ v.maxUses = 1 /\ v.currentUses = 0
         /\ Membership(runs[i].pre.members, v.conversationId, runs[i].u.id) = {}

\* C5: a redemption by a user who already is a member of the invite's
\* conversation creates no membership and leaves currentUses as it was, so a
\* second redemption in sequence changes nothing in the store.
C5_RedeemIdempotent ==
  \A i \in DoneRuns("invite") :
    LET r == runs[i] IN
      \A v \in PreInvites(r) :
        Membership(r.pre.members, v.conversationId, r.u.id) # {} => WroteNothing(r)

C5_Witness ==
  \E i \in DoneRuns("invite") :
    /\ runs[i].outcome = "joined"
    /\ \E v \in PreInvites(runs[i]) :
         /\ Membership(runs[i].pre.members, v.conversationId, runs[i].u.id) # {}
         /\ v.currentUses > 0

\* C7: loadConversations for a user without any membership record (and no
\* failed lookup) leaves the conversation list empty and has queried the
\* membership collection only: not conversations, messages or users.
C7_NoMembershipNoLookup ==
  \A i \in DoneRuns("load") :
    LET r == runs[i] IN
      (MembersOfUser(r.pre.members, r.u.id) = {} /\ ~r.lcFailed)
        => /\ conversations[r.s] = <<>>
           /\ r.calls = {"conversationMembers"}
           /\ r.outcome = "ok"

C7_Witness ==
  \E i \in DoneRuns("load") :
    /\ MembersOfUser(runs[i].pre.members, runs[i].u.id) = {}
    /\ ~runs[i].lcFailed /\ runs[i].outcome = "ok"

\* The private conversations both users had a membership of when the run began.
SharedPrivate(r) ==
  {c \in r.pre.convs :
     /\ c.type = "private"
     /\ Membership(r.pre.members, c.id, r.u.id) # {}
     /\ Membership(r.pre.members, c.id, r.target) # {}}

\* C1, as stated: createPrivateChat(A, B) for users who already share a private
\* conversation (and no store call fails) selects such a conversation and
\* creates neither a Conversation nor a ConversationMember record.
C1_ExistingPrivateReused ==
  \A i \in DoneRuns("private") :
    LET r == runs[i] IN
      (r.outcome # "error" /\ SharedPrivate(r) # {})
        => /\ r.outcome = "existing"
           /\ selected[r.s] \in {c.id : c \in SharedPrivate(r)}
           /\ WroteNothing(r)

\* C6: a createGroup that succeeded created exactly one Conversation, of type
\* group with the given name and description, and exactly 1 + |memberIds|
\* memberships of it: the creator as admin (guest for a guest) and every
\* supplied id as member.
C6_GroupCreated ==
  \A i \in DoneRuns("group") :
    LET r == runs[i] IN
      r.outcome = "created"
        => \E c \in dbConvs \ r.pre.convs :
             /\ dbConvs = r.pre.convs \cup {c}
             /\ c.type = "group" /\ c.name = r.name /\ c.description = r.description
             /\ dbMembers \ r.pre.members = MembersOfConv(dbMembers, c.id)
             /\ r.pre.members \subseteq dbMembers
             /\ Cardinality(MembersOfConv(dbMembers, c.id)) = 1 + Len(r.memberIds)
             /\ \E m \in MembersOfConv(dbMembers, c.id) :
                  /\ m.userId = r.u.id
                  /\ m.role = (IF r.u.isGuest THEN "guest" ELSE "admin")
                  /\ \E f \in [1..Len(r.memberIds) -> MembersOfConv(dbMembers, c.id) \ {m}] :
                       /\ \A k \in 1..Len(r.memberIds) :
                            f[k].userId = r.memberIds[k] /\ f[k].role = "member"
                       /\ \A j, k \in 1..Len(r.memberIds) : j # k => f[j] # f[k]

C6_Witness ==
  \E i \in DoneRuns("group") :
    /\ runs[i].outcome = "created"
    /\ Len(runs[i].memberIds) = 2
    /\ runs[i].pre.convs # {}

\* ------------------------------------------------------ the message thread
BlankSends == {i \in 1..Len(runs) : runs[i].op = "send" /\ Trim(runs[i].pre.newMessage) = <<>>}

\* C8: a sendMessage trigger whose typed text is empty or only blanks returns
\* at once: it writes nothing to the store (no message, no conversation
\* update) and the thread shown, the typed input and the sending flag are what
\* they were when it was triggered.
C8_BlankSendNoEffect ==
  \A i \in BlankSends :
    LET r == runs[i] IN
      /\ r.pc = "done" /\ r.outcome = "noop"
      /\ r.writes = <<>> /\ r.calls = {}
      /\ dbMessages = r.pre.dbMessages /\ dbConvs = r.pre.convs
      /\ messages[r.s] = r.pre.messages
      /\ newMessage[r.s] = r.pre.newMessage
      /\ sending[r.s] = r.pre.sending

C8_Witness ==
  \E i \in BlankSends :
    /\ runs[i].pc = "done" /\ runs[i].outcome = "noop"
    /\ runs[i].pre.newMessage = <<" ">>
    /\ newMessage[runs[i].s] = <<" ">>

SentAndLoaded == {i \in DoneRuns("send") : runs[i].outcome = "sent" /\ ~runs[i].lmFailed}

\* C9: when sendMessage has sent a text and its loadMessages has answered, the
\* list it loaded and the thread shown contain a message of type text whose
\* content is the typed text trimmed, whose sender is the user, and whose
\* createdAt is not before the lastMessageAt the conversation had when the
\* send was triggered.
C9_SentTextLoaded ==
  \A i \in SentAndLoaded :
    LET r == runs[i] IN
      \E k \in 1..Len(r.msgs) :
        LET m == r.msgs[k] IN
          /\ m.messageType = "text"
          /\ m.content = Trim(r.pre.newMessage)
          /\ m.userId = r.u.id
          /\ m.conversationId = r.conv
          /\ \A c \in r.pre.convs : c.id = r.conv => m.createdAt >= c.lastMessageAt
          /\ \E j \in 1..Len(messages[r.s]) : messages[r.s][j].msg = m

C9_Witness ==
  \E i \in SentAndLoaded :
    /\ runs[i].pre.newMessage = <<" ", "a", " ">>
    /\ Len(runs[i].msgs) = 1
    /\ runs[i].msgs[1].content = <<"a">>
    /\ \E c \in runs[i].pre.convs : c.id = runs[i].conv /\ c.lastMessageAt = runs[i].msgs[1].createdAt

\* C10: a sendMessage trigger that finds an earlier send or an attachment
\* upload of the same thread still in flight is a no-op: it returns at once
\* and writes nothing.
C10_SendWhileBusyIsNoop ==
  \A i \in 1..Len(runs) :
    LET r == runs[i] IN
      (r.op = "send" /\ \E o \in {"send", "upload"} : <<o, r.conv>> \in r.pre.inflight)
        => (r.pc = "done" /\ r.outcome = "noop" /\ r.writes = <<>>)

\* C11: a handleFileUpload trigger (file picker or drop) that finds an earlier
\* upload or text send of the same thread still in flight is a no-op: it
\* starts no upload and writes nothing.
C11_UploadWhileBusyIsNoop ==
  \A i \in 1..Len(runs) :
    LET r == runs[i] IN
      (r.op = "upload" /\ \E o \in {"send", "upload"} : <<o, r.conv>> \in r.pre.inflight)
        => (r.pc = "done" /\ r.outcome = "noop" /\ r.writes = <<>> /\ r.calls = {})

CreatedMessage(r) == \E k \in 1..Len(r.writes) : r.writes[k].coll = "messages"

\* C12, as stated: after a send one of whose steps failed (the create, the
\* conversation update or the reload of the thread) the typed text is still
\* in the input, and the sending flag is false.
C12_FailedSendKeepsText ==
  \A i \in DoneRuns("send") :
    LET r == runs[i] IN
      (r.outcome = "error" \/ r.lmFailed)
        => (newMessage[r.s] = r.pre.newMessage /\ ~sending[r.s])

\* C12: when sendMessage returns the sending flag is false; when its create
\* or its conversation update failed the typed text is still in the input;
\* the input is cleared only by a send that created its message (also when
\* the reload of the thread then fails).
C12_TextClearedAfterCreate ==
  \A i \in DoneRuns("send") :
    LET r == runs[i] IN
      /\ ~sending[r.s]
      /\ r.outcome = "error" => newMessage[r.s] = r.pre.newMessage
      /\ newMessage[r.s] # r.pre.newMessage => (CreatedMessage(r) /\ newMessage[r.s] = <<>>)
      /\ (r.outcome = "sent" /\ r.lmFailed) => newMessage[r.s] = <<>>

C12_Witness ==
  \E i \in DoneRuns("send") :
    /\ runs[i].outcome = "error"
    /\ CreatedMessage(runs[i])
    /\ runs[i].pre.newMessage = <<" ", "a", " ">>
    /\ newMessage[runs[i].s] = <<" ", "a", " ">>
    /\ ~sending[runs[i].s]

\* ------------------------------------------------------- store invariants
\* C13: in every state of the store a private conversation has exactly two
\* membership records and a group conversation has at least one.
C13_MemberCounts ==
  \A c \in dbConvs :
    LET n == Cardinality(MembersOfConv(dbMembers, c.id)) IN
      /\ c.type = "private" => n = 2
      /\ c.type = "group" => n >= 1

Redeemed(r) == r.op = "invite" /\ Len(r.writes) = 2

\* Two redemptions by distinct users that read the same invite record (the
\* same currentUses) and have both written.
RacingPairs ==
  {p \in (1..Len(runs)) \X (1..Len(runs)) :
     /\ p[1] < p[2]
     /\ Redeemed(runs[p[1]]) /\ Redeemed(runs[p[2]])
     /\ runs[p[1]].u.id # runs[p[2]].u.id
     /\ runs[p[1]].invite = runs[p[2]].invite}

JoinedThrough(v) == {m \in dbMembers : m.conversationId = v.conversationId /\ m # Member0}

\* C20: when two redemptions of one invite by distinct non-members have both
\* read the same currentUses c and both written, the store holds both new
\* memberships but currentUses = c + 1: one increment is lost, and two users
\* joined although the cap check admitted only one more use.
C20_LostUpdate ==
  \A p \in RacingPairs :
    LET r1 == runs[p[1]]
        r2 == runs[p[2]]
    IN  /\ \E m \in dbMembers : m.conversationId = r1.invite.conversationId /\ m.userId = r1.u.id
        /\ \E m \in dbMembers : m.conversationId = r2.invite.conversationId /\ m.userId = r2.u.id
        /\ \A v \in dbInvites : v.id = r1.invite.id => v.currentUses = r1.invite.currentUses + 1

C20_Witness ==
  \E p \in RacingPairs :
    \E v \in dbInvites :
      /\ v.id = runs[p[1]].invite.id
      /\ v.maxUses = 1 /\ runs[p[1]].invite.currentUses = 0
      /\ Cardinality(JoinedThrough(v)) = 2
      /\ Cardinality(JoinedThrough(v)) > v.maxUses
      /\ v.currentUses = 1

\* ------------------------------------------------------- failed operations
FailedLoads == {i \in DoneRuns("load") : runs[i].lcFailed}

\* C17: a loadConversations one of whose lookups failed leaves the list of
\* conversations as it was when the load was called and raises exactly one
\* notification, the error.
C17_FailedLoadCommitsNothing ==
  \A i \in FailedLoads :
    LET r == runs[i] IN
      /\ conversations[r.s] = r.pre.conversations
      /\ r.toasts = <<"Failed to load conversations">>
      /\ r.outcome = "error"

C17_Witness ==
  \E i \in FailedLoads :
    /\ runs[i].pre.conversations # <<>>
    /\ "conversations" \in runs[i].calls
    /\ conversations[runs[i].s] # <<>>

\* ------------------------------------------------------ session bootstrap
\* The run has called handleInviteJoin for the code its closure captured.
StartedJoin(r) ==
  /\ r.op \in {"auth", "guest"} /\ r.code # 0
  /\ \/ r.pc \in {"ij_invites", "ij_existing", "ij_create", "ij_update", "ij_conv"}
     \/ r.invite # NoInvite
     \/ r.joined # "none"

\* C15: for the invite code a session captured at page load, handleInviteJoin
\* is started at most once, however many sign-ins and guest logins the
\* session sees: no two of its handlers have both called it.
C15_RedeemStartedOnce ==
  \A s \in Sessions :
    Cardinality({k \in 1..Len(runs) : runs[k].s = s /\ StartedJoin(runs[k])}) <= 1

\* The step in which the users.create of run i comes back failed or refused.
ProfileWriteFails(i) ==
  /\ i \in 1..Len(runs) /\ i \in 1..Len(runs')
  /\ runs[i].pc \in {"au_create", "gl_create"}
  /\ runs'[i].pc = "done"
  /\ runs'[i].outcome \in {"error", "refused"}

\* C16: when the User record write of the auth callback or of the guest
\* login fails, that step raises exactly one notification, leaves the current
\* user, the guest prompt, the pending invite code and the store as they
\* were, and the handler returns without having called loadConversations or
\* handleInviteJoin (no store call made, no handler started).
C16_FailedProfileWrite ==
  [][\A i \in 1..Len(runs) :
       ProfileWriteFails(i) =>
         /\ Len(runs'[i].toasts) = Len(runs[i].toasts) + 1
         /\ Len(runs'[i].toasts) = 1
         /\ user' = user
         /\ showGuestLogin' = showGuestLogin
         /\ inviteCode' = inviteCode
         /\ store' = store
         /\ conversations' = conversations
         /\ runs'[i].calls = {} /\ runs'[i].writes = <<>>
         /\ runs'[i].joined = "none" /\ runs'[i].invite = NoInvite
         /\ Len(runs') = Len(runs)]_vars

\* A guest login whose users.create failed has returned: nobody is signed
\* in and the guest prompt is still shown.
C16_Witness ==
  \E i \in DoneRuns("guest") :
    /\ runs[i].outcome = "error"
    /\ runs[i].toasts = <<"Failed to sign in as guest">>
    /\ user[runs[i].s] = NoUser
    /\ showGuestLogin[runs[i].s]
    /\ runs[i].code # 0

\* C18: an auth notification for an identity whose User record the store
\* already holds, and whose store call does not fail, ends signed in: the
\* record of that id is the one written (isGuest false, displayName the local
\* part of the email) and the current user is that identity.
C18_ReturningIdentitySignsIn ==
  \A i \in DoneRuns("auth") :
    (HasId(runs[i].pre.users, runs[i].u.id) /\ runs[i].outcome # "error") =>
      /\ runs[i].outcome = "signedin"
      /\ user[runs[i].s] = runs[i].u
      /\ runs[i].u \in dbUsers

\* A handler that ended on a validation failure: a guest name of blanks, a
\* group form without name or members, an invite that is unknown, expired
\* or used up (redeemed on its own or from the auth callback).
ValidationFailures ==
  {i \in 1..Len(runs) :
     /\ runs[i].pc = "done"
     /\ \/ runs[i].op = "guest" /\ runs[i].outcome = "noop"
        \/ runs[i].op = "group" /\ runs[i].outcome = "invalid"
        \/ runs[i].op = "invite" /\ runs[i].outcome \in {"invalid", "expired", "limit"}
        \/ runs[i].op = "auth" /\ runs[i].joined \in {"invalid", "expired", "limit"}}

\* C19: every validation failure raises exactly one notification and writes
\* nothing to the store (the auth callback's own profile write, made before
\* the invite is looked at, is not counted).
C19_ValidationFailureNotifiesOnce ==
  \A i \in ValidationFailures :
    /\ Len(runs[i].toasts) = 1
    /\ \A k \in 1..Len(runs[i].writes) : runs[i].writes[k].coll = "users"
    /\ dbMembers = runs[i].pre.members
    /\ dbInvites = runs[i].pre.invites

\* --------------------------------------------------- duplicate private chats
\* A createPrivateChat that found no chat with its target and has written the
\* conversation and its memberships.
CreatedPrivate(r) == r.op = "private" /\ Len(r.writes) = 2

\* Two such runs for the same pair of users: (A, B) and (B, A), or (A, B)
\* twice.
DuplicatePairs ==
  {p \in (1..Len(runs)) \X (1..Len(runs)) :
     /\ p[1] < p[2]
     /\ CreatedPrivate(runs[p[1]]) /\ CreatedPrivate(runs[p[2]])
     /\ {runs[p[1]].u.id, runs[p[1]].target} = {runs[p[2]].u.id, runs[p[2]].target}}

MemberUsers(cid) == {m.userId : m \in MembersOfConv(dbMembers, cid)}

\* C21: when two createPrivateChat runs for the same pair of users have both
\* finished their scan without a match and both written, the store holds two
\* distinct private conversations whose members are that same pair, and
\* neither run has raised the error notification.
C21_DuplicatePrivateChats ==
  \A p \in DuplicatePairs :
    LET r1 == runs[p[1]]
        r2 == runs[p[2]]
    IN  /\ r1.cid # r2.cid
        /\ \A c \in {r1.cid, r2.cid} :
             /\ \E x \in dbConvs : x.id = c /\ x.type = "private"
             /\ MemberUsers(c) = {r1.u.id, r1.target}
             /\ Cardinality(MembersOfConv(dbMembers, c)) = 2
        /\ \A r \in {r1, r2} :
             \A k \in 1..Len(r.toasts) : r.toasts[k] # "Failed to create private chat"

\* Both runs started from a store without conversations; one has returned
\* with the success notification, the other has written and is reloading.
C21_Witness ==
  \E p \in DuplicatePairs :
    /\ runs[p[1]].pre.convs = {} /\ runs[p[2]].pre.convs = {}
    /\ runs[p[1]].u.id # runs[p[2]].u.id
    /\ \E k \in {1, 2} :
         /\ runs[p[k]].outcome = "created"
         /\ runs[p[k]].toasts = <<"Private chat created successfully">>
    /\ Cardinality({c \in dbConvs : c.type = "private"
                                   /\ MemberUsers(c.id) = {UserA.id, UserB.id}}) = 2

\* ------------------------------------------------------- partial creation
\* A creation whose conversation record was written and whose membership
\* batch failed.
HalfCreated ==
  {i \in DoneRuns("private") \cup DoneRuns("group") :
     runs[i].outcome = "error" /\ Len(runs[i].writes) = 1}

\* C22: when the membership batch of createPrivateChat or createGroup fails
\* after the conversation was created, the conversation record is still in
\* the store and has no member record, the session's conversation list and
\* selection are as they were when the handler was called (no reload), and
\* the handler has raised exactly one notification, the error.
C22_NoRollback ==
  \A i \in HalfCreated :
    LET r == runs[i] IN
      /\ r.writes[1].coll = "conversations"
      /\ \E c \in dbConvs : c.id = r.cid
      /\ MembersOfConv(dbMembers, r.cid) = {}
      /\ dbMembers = r.pre.members
      /\ conversations[r.s] = r.pre.conversations
      /\ selected[r.s] = r.pre.selected
      /\ r.mids = {} /\ r.cdata = <<>> /\ ~r.lcFailed
      /\ Len(r.toasts) = 1
      /\ r.toasts[1] = IF r.op = "private" THEN "Failed to create private chat"
                       ELSE "Failed to create group chat"

C22_Witness ==
  \E i \in HalfCreated :
    /\ runs[i].op = "group"
    /\ runs[i].pre.conversations # <<>>
    /\ \E c \in dbConvs : c.id = runs[i].cid /\ c.type = "group"
    /\ MembersOfConv(dbMembers, runs[i].cid) = {}

\* ------------------------------------------------------------ stale threads
\* A loadMessages called by the selection effect that has committed.
CommittedLoads == {i \in DoneRuns("thread") : ~runs[i].lmFailed}

ViewsOf(q) == [k \in 1..Len(q) |-> MessageView(q[k])]

\* C23: a loadMessages that completes commits the messages of the
\* conversation it was started for, whichever conversation is selected by
\* then: the displayed thread is the list it read, all of its own conversation.
C23_LoadAppliedUnchecked ==
  \A i \in CommittedLoads :
    LET r == runs[i] IN
      /\ messages[r.s] = ViewsOf(r.msgs)
      /\ \A k \in 1..Len(r.msgs) : r.msgs[k].conversationId = r.conv
      /\ ~loading[r.s]

\* Every load has completed, conversation Y is selected, and the thread shown
\* holds the message of conversation X.
C23_Witness ==
  \E i \in CommittedLoads :
    /\ Len(runs) = 1
    /\ runs[i].conv = ConvX.id
    /\ selected[runs[i].s] = ConvY.id
    /\ messages[runs[i].s] # <<>>
    /\ \A k \in 1..Len(messages[runs[i].s]) :
         messages[runs[i].s][k].msg.conversationId = ConvX.id
    /\ ~loading[runs[i].s]

\* ------------------------------------------------------------ synthetic ids
\* The ids of the records the clients have created (those of the initial
\* store carry the time 0).
ClientIds ==
  {id \in {c.id : c \in dbConvs} \cup {m.id : m \in dbMembers}
          \cup {m.id : m \in dbMessages} \cup {v.id : v \in dbInvites}
          \cup {u.id : u \in dbUsers} : id[2] > 0}

\* C24: every id a client has generated carries a random suffix besides its
\* timestamp (the fourth component of the id is a random draw, not the
\* constant 0 of an id built from the timestamp alone or from a fixed index).
C24_IdsHaveRandomSuffix == \A id \in ClientIds : id[4] > 0

\* ---------------------------------------------------------- message records
\* The four attachment fields of a message record are all set / all unset.
HasFileFields(m) ==
  /\ m.fileUrl # NoUrl /\ m.fileName # NoMsg.fileName
  /\ m.fileSize # NoMsg.fileSize /\ m.fileType # NoMsg.fileType
HasNoFileField(m) ==
  /\ m.fileUrl = NoUrl /\ m.fileName = NoMsg.fileName
  /\ m.fileSize = NoMsg.fileSize /\ m.fileType = NoMsg.fileType

\* C25: every message record in the store is a 'text' message without any
\* attachment field and with non-empty, trimmed content, or an 'image' or
\* 'file' message with all four attachment fields, 'image' exactly when the
\* media type of the uploaded file starts with "image/".
C25_MessageShape ==
  \A m \in dbMessages :
    /\ m.messageType \in {"text", "image", "file"}
    /\ m.messageType = "text" =>
         HasNoFileField(m) /\ m.content # <<>> /\ Trim(m.content) = m.content
    /\ m.messageType # "text" =>
         /\ HasFileFields(m)
         /\ m.messageType = "image" <=> StartsWith(m.fileType, <<"image", "/">>)

\* An upload of an image has created its message.
C25_Witness ==
  \E i \in 1..Len(runs) :
    /\ runs[i].op = "upload" /\ runs[i].writes # <<>>
    /\ runs[i].file.type = <<"image", "/", "png">>
    /\ \E m \in dbMessages : m \in runs[i].writes[1].recs /\ m.messageType = "image"

\* ----------------------------------------------------------- invite records
\* C26: in every step, each invite of the store is still there afterwards
\* with the same isActive, maxUses, expiresAt, inviteCode, conversationId and
\* createdBy; only currentUses may differ, and invites are only added.
C26_InviteFrame ==
  [][\A v \in dbInvites :
       \E w \in dbInvites' :
         /\ w.id = v.id
         /\ w = [v EXCEPT !.currentUses = w.currentUses]
         /\ w.currentUses >= v.currentUses]_vars

\* The earlier invite was redeemed up to its cap, a newer link was generated,
\* and a further redemption of the earlier code has been turned away: both
\* invite records are in the store and the exhausted one is still active.
C26_Witness ==
  \E i \in DoneRuns("invite") :
    /\ runs[i].outcome = "limit"
    /\ Cardinality(dbInvites) = 2
    /\ \E v \in dbInvites :
         /\ v.inviteCode = runs[i].code /\ v.id[2] = 0
         /\ v.isActive /\ InviteExhausted(v) /\ v.currentUses > 0
    /\ \E v \in dbInvites : v.id[2] > 0 /\ v.isActive

\* ------------------------------------------------------------ guest sessions
\* C27: once a guest login of the session has succeeded (its guest record is
\* in the store), and with nobody signing out, the current user is a guest
\* and the guest prompt is closed, whatever the provider reports afterwards.
C27_GuestStaysSignedIn ==
  (\E g \in dbUsers : g.isGuest /\ g.id[2] > 0) =>
    /\ user["s1"].isGuest
    /\ ~showGuestLogin["s1"]

\* C28: every message a client has created was sent by a member of its
\* conversation: a user who signs in after another user of the same page has
\* signed out does not write into the thread that user had open.
C28_SenderIsMember ==
  \A m \in dbMessages :
    m.id[2] > 0 => Membership(dbMembers, m.conversationId, m.userId) # {}

\* ------------------------------------------------------------ pending code
\* The step in which run i, a sign-in or guest login, calls handleInviteJoin.
EntersJoin(i) ==
  /\ i \in 1..Len(runs) /\ i \in 1..Len(runs')
  /\ runs[i].op \in {"auth", "guest"}
  /\ Len(runs') >= Len(runs)
  /\ runs[i].pc \notin {"ij_invites", "done"} /\ runs'[i].pc = "ij_invites"

\* C29: once the session's pending invite code has been discarded (after a
\* first redemption attempt, whatever its outcome), no sign-in or guest login
\* of that session calls handleInviteJoin any more: every step that enters
\* the join is taken while the code is still pending.
C29_NoRetryAfterDiscard ==
  [][\A i \in 1..Len(runs) : EntersJoin(i) => inviteCode[runs[i].s] # 0]_vars

\* ------------------------------------------------------------- failed sends
\* C30: a send that ended with the error notification and the typed text
\* still in the input has left no message in the store: it wrote no message
\* record, and the store holds the messages it held when the send began.
C30_FailedSendLeavesNoMessage ==
  \A i \in DoneRuns("send") :
    LET r == runs[i] IN
      (/\ r.outcome = "error"
       /\ r.toasts = <<"Failed to send message">>
       /\ newMessage[r.s] = r.pre.newMessage)
        => /\ ~CreatedMessage(r)
           /\ \A m \in dbMessages :
                (m.userId = r.u.id /\ m.content = r.text) => m \in r.pre.dbMessages

====
